---- MODULE Spec2Model ----
(***************************************************************************)
(* Track map generator of 1Lap/viewer: resampler, spline builder, width    *)
(* estimator and constraint enforcer, modelled as state machines.          *)
(*                                                                         *)
(* Numbers.  The source computes in IEEE doubles; the model computes in    *)
(* exact integer (fixed-point) arithmetic.  Every quantity carries its     *)
(* unit in a comment.  Sequences are 1-based: source index i is model      *)
(* index i + 1.                                                            *)
(*                                                                         *)
(* Each function of the generator is a frame: one record-valued variable   *)
(* whose fields are the function's parameters and locals, under the names  *)
(* the source gives them.  Each specification runs one frame and leaves    *)
(* the other frames idle.                                                  *)
(***************************************************************************)
EXTENDS Integers, Sequences, FiniteSets, TLC

VARIABLES
  clamp,
  guard,
  pipe,
  outl,
  resample,
  calib,
  budget,
  spline,
  stage,
  smooth,
  edges,
  loader,
  find,
  viewer,
  share,
  apex,
  envl,
  kern,
  page

\* clamp: clampWidthDeltas / applySlopeClamp (spline.js); guard: enforceWidthConstraints
\* (constraints.js); pipe: the width pipeline of main() (generateTrackMap.js); outl:
\* detectWidthOutliers (spline.js); resample: resampleOnGrid, calib: resampleCalibrationLaps
\* (resampler.js); budget: buildAnchorBudget, spline: buildCenterSplineSamples (spline.js).
\* stage: the width-stage operations on shared arrays (spline.js, constraints.js)
\* smooth: smoothArray and savitzkyGolaySmooth (smoothing.js)
\* edges: determineInsideEdges (spline.js 224-290)
\* loader: loadTrackMap, clearTrackMapCache (trackMapLoader.js)
\* find: findSampleAtDistance (utils.js 10-22)
\* viewer: the viewer state of state.js
\* share: encodeSamples and decodeSamples (share.js 201-361)
\* apex: detectApexIndices (spline.js 292-323)
\* envl: buildConstantWidthEnvelope sample by sample (spline.js 445-494)
\* kern: sgKernelCache across savitzkyGolaySmooth calls (smoothing.js 167-196, 273-306)
\* page: the viewer page: handleFiles, activateLap, handleVisibilityChange, clearLaps

vars == <<clamp, guard, pipe, outl, resample, calib, budget, spline, stage, smooth, edges, loader, find, viewer, share, apex, envl, kern, page>>

Idle == [pc |-> "idle"]

\* The frames a specification leaves idle.
notClamp == <<guard, pipe, outl, resample, calib, budget, spline, stage, smooth, edges, loader, find, viewer, share, apex, envl, kern, page>>
notGuard == <<clamp, pipe, outl, resample, calib, budget, spline, stage, smooth, edges, loader, find, viewer, share, apex, envl, kern, page>>
notPipe == <<clamp, guard, outl, resample, calib, budget, spline, stage, smooth, edges, loader, find, viewer, share, apex, envl, kern, page>>
notOutl == <<clamp, guard, pipe, resample, calib, budget, spline, stage, smooth, edges, loader, find, viewer, share, apex, envl, kern, page>>
notGrid == <<clamp, guard, pipe, outl, calib, budget, spline, stage, smooth, edges, loader, find, viewer, share, apex, envl, kern, page>>
notCalib == <<clamp, guard, pipe, outl, resample, budget, spline, stage, smooth, edges, loader, find, viewer, share, apex, envl, kern, page>>
notBudget == <<clamp, guard, pipe, outl, resample, calib, spline, stage, smooth, edges, loader, find, viewer, share, apex, envl, kern, page>>
notSpline == <<clamp, guard, pipe, outl, resample, calib, budget, stage, smooth, edges, loader, find, viewer, share, apex, envl, kern, page>>
notStage == <<clamp, guard, pipe, outl, resample, calib, budget, spline, smooth, edges, loader, find, viewer, share, apex, envl, kern, page>>
notSmooth == <<clamp, guard, pipe, outl, resample, calib, budget, spline, stage, edges, loader, find, viewer, share, apex, envl, kern, page>>
notInside == <<clamp, guard, pipe, outl, resample, calib, budget, spline, stage, smooth, loader, find, viewer, share, apex, envl, kern, page>>
notLoader == <<clamp, guard, pipe, outl, resample, calib, budget, spline, stage, smooth, edges, find, viewer, share, apex, envl, kern, page>>
notFind == <<clamp, guard, pipe, outl, resample, calib, budget, spline, stage, smooth, edges, loader, viewer, share, apex, envl, kern, page>>
notViewer == <<clamp, guard, pipe, outl, resample, calib, budget, spline, stage, smooth, edges, loader, find, share, apex, envl, kern, page>>
notShare == <<clamp, guard, pipe, outl, resample, calib, budget, spline, stage, smooth, edges, loader, find, viewer, apex, envl, kern, page>>
notApex == <<clamp, guard, pipe, outl, resample, calib, budget, spline, stage, smooth, edges, loader, find, viewer, share, envl, kern, page>>
notEnvelope == <<clamp, guard, pipe, outl, resample, calib, budget, spline, stage, smooth, edges, loader, find, viewer, share, apex, kern, page>>
notKernel == <<clamp, guard, pipe, outl, resample, calib, budget, spline, stage, smooth, edges, loader, find, viewer, share, apex, envl, page>>
notPage == <<clamp, guard, pipe, outl, resample, calib, budget, spline, stage, smooth, edges, loader, find, viewer, share, apex, envl, kern>>

(***************************************************************************)
(* Arithmetic helpers                                                      *)
(***************************************************************************)
Max(a, b) == IF a >= b THEN a ELSE b
Min(a, b) == IF a <= b THEN a ELSE b
Abs(a) == IF a < 0 THEN -a ELSE a

\* Math.round(a / b) for b > 0: the nearest integer, halves towards +infinity.
RoundDiv(a, b) == (2 * a + b) \div (2 * b)

\* Math.ceil(a / b) for a >= 0, b > 0.
CeilDiv(a, b) == (a + b - 1) \div b

RECURSIVE Gcd(_, _)
Gcd(a, b) == IF b = 0 THEN Abs(a) ELSE Gcd(b, a % Abs(b))

RECURSIVE SeqGcd(_)
SeqGcd(s) == IF s = <<>> THEN 0 ELSE Gcd(Head(s), SeqGcd(Tail(s)))

RECURSIVE SumRange(_, _, _)
\* s[lo] + ... + s[hi], by halves
SumRange(s, lo, hi) ==
  IF lo > hi THEN 0
  ELSE IF lo = hi THEN s[lo]
  ELSE LET mid == (lo + hi) \div 2
       IN SumRange(s, lo, mid) + SumRange(s, mid + 1, hi)

SeqSum(s) == SumRange(s, 1, Len(s))

\* Number of TRUE entries of a boolean sequence: flags.filter(Boolean).length.
CountTrue(f) == Cardinality({i \in DOMAIN f : f[i]})

RECURSIVE SeqsOver(_, _)
\* All sequences over S of length exactly k.
SeqsOver(S, k) ==
  IF k = 0 THEN {<<>>}
  ELSE {Append(s, x) : s \in SeqsOver(S, k - 1), x \in S}

SeqsUpTo(S, k) == UNION {SeqsOver(S, j) : j \in 0..k}

RECURSIVE TupleRange(_, _, _)
\* <<f[lo], ..., f[hi]>>, by halves
TupleRange(f, lo, hi) ==
  IF lo > hi THEN <<>>
  ELSE IF lo = hi THEN <<f[lo]>>
  ELSE LET mid == (lo + hi) \div 2
       IN TupleRange(f, lo, mid) \o TupleRange(f, mid + 1, hi)

\* The function f on 1..n as a tuple of its n values, each computed once.
Tuple(f, n) == TupleRange(f, 1, n)

(***************************************************************************)
(* Slope clamp: spline.js clampWidthDeltas, applySlopeClamp,               *)
(* summariseClampBySector.                                                 *)
(* Units: widths and maxDeltaPer10m in width units, spacingMeters and      *)
(* sectorLength in millimetres, so that Math.max(spacingMeters, 1e-3) is   *)
(* Max(spacingMeters, 1).                                                  *)
(***************************************************************************)
MaxLen == 5          \* longest half-width array
MaxVal == 2          \* half-width values are drawn from {0, 2, .., 2 * MaxVal}
MilliPerMeter == 1000

\* per-sample limit: (maxDeltaPer10m / 10) * Math.max(spacingMeters, 1e-3)
PerSampleLimit(spacingMeters, maxDeltaPer10m) ==
  (maxDeltaPer10m * Max(spacingMeters, 1)) \div (10 * MilliPerMeter)

\* (i - 1 + n) % n, on 1-based indices
PrevIndexNoWrap(i, n) == IF i = 1 THEN 1 ELSE i - 1
PrevIndex(i, n) == IF i = 1 THEN n ELSE i - 1

\* const delta = current - prevValue
SlopeDeltaBack(current, prevValue) == prevValue - current
SlopeDelta(current, prevValue) == current - prevValue

RECURSIVE SlopePassFrom(_, _, _, _, _)
\* The for loop of one pass of applySlopeClamp, from index i on.
SlopePassFrom(result, flags, changed, i, perSampleLimit) ==
  IF i > Len(result)
  THEN [result |-> result, flags |-> flags, changed |-> changed]
  ELSE LET prevValue == result[PrevIndex(i, Len(result))]
           delta == SlopeDelta(result[i], prevValue)
       IN IF delta > perSampleLimit
          THEN SlopePassFrom([result EXCEPT ![i] = prevValue + perSampleLimit],
                             [flags EXCEPT ![i] = TRUE], TRUE, i + 1, perSampleLimit)
          ELSE IF delta < -perSampleLimit
          THEN SlopePassFrom([result EXCEPT ![i] = prevValue - perSampleLimit],
                             [flags EXCEPT ![i] = TRUE], TRUE, i + 1, perSampleLimit)
          ELSE SlopePassFrom(result, flags, changed, i + 1, perSampleLimit)

\* The pass cap of the while loop: iterations < n * 2.
PassCapOne(n) == 1
PassCap(n) == n * 2

RECURSIVE SlopeLoop(_, _, _, _, _)
\* The while loop of applySlopeClamp, run to its exit.
SlopeLoop(result, flags, changed, iterations, perSampleLimit) ==
  IF changed /\ iterations < PassCap(Len(result))
  THEN LET p == SlopePassFrom(result, flags, FALSE, 1, perSampleLimit)
       IN SlopeLoop(p.result, p.flags, p.changed, iterations + 1, perSampleLimit)
  ELSE [values |-> result, flags |-> flags, clampedCount |-> CountTrue(flags),
        changed |-> changed, iterations |-> iterations]

applySlopeClamp(values, perSampleLimit) ==
  SlopeLoop(values, [i \in DOMAIN values |-> FALSE], TRUE, 0, perSampleLimit)

summariseClampBySector(flags, spacingMeters, sectorLength) ==
  IF Len(flags) = 0 THEN <<>>
  ELSE LET samplesPerSector == Max(1, RoundDiv(sectorLength, Max(spacingMeters, 1)))
           sectorCount == CeilDiv(Len(flags), samplesPerSector)
       IN [s \in 1..sectorCount |->
            LET start == (s - 1) * samplesPerSector
                end == Min(Len(flags), start + samplesPerSector)
            IN [sector |-> s - 1,
                samples |-> end - start,
                clamped |-> Cardinality({idx \in (start + 1)..end : flags[idx]})]]

\* Inputs of clampWidthDeltas.
WidthArrays == SeqsUpTo({2 * k : k \in 0..MaxVal}, MaxLen)
Alternating(n) == [i \in 1..n |-> IF i % 2 = 1 THEN 0 ELSE 100]
Reversed(s) == [i \in 1..Len(s) |-> s[Len(s) + 1 - i]]
SpacingSet == {0, 2, 3}
MaxDeltaSet == {10000}
SectorLengthSet == {2}

ClampInit ==
  /\ guard = Idle /\ pipe = Idle /\ outl = Idle /\ resample = Idle /\ calib = Idle /\ budget = Idle /\ spline = Idle /\ stage = Idle /\ smooth = Idle /\ edges = Idle /\ loader = Idle /\ find = Idle /\ viewer = Idle /\ share = Idle /\ apex = Idle /\ envl = Idle /\ kern = Idle /\ page = Idle
  /\ \E l \in WidthArrays, sp \in SpacingSet, md \in MaxDeltaSet, sl \in SectorLengthSet :
     \E r \in {l, Reversed(l), Alternating(Len(l))} :
      clamp = [pc |-> "left",
               halfWidthLeft |-> l, halfWidthRight |-> r,
               spacingMeters |-> sp, maxDeltaPer10m |-> md, sectorLength |-> sl,
               perSampleLimit |-> PerSampleLimit(sp, md),
               result |-> l, flags |-> [i \in DOMAIN l |-> FALSE],
               changed |-> TRUE, iterations |-> 0,
               leftClamp |-> <<>>, rightClamp |-> <<>>, diagnostics |-> <<>>]

\* One pass of the while loop of applySlopeClamp, on the side being clamped.
SlopeClampPass ==
  /\ clamp.pc \in {"left", "right"}
  /\ clamp.changed /\ clamp.iterations < PassCap(Len(clamp.result))
  /\ LET p == SlopePassFrom(clamp.result, clamp.flags, FALSE, 1, clamp.perSampleLimit)
     IN clamp' = [clamp EXCEPT !.result = p.result, !.flags = p.flags,
                               !.changed = p.changed, !.iterations = @ + 1]
  /\ UNCHANGED notClamp

SlopeExit == ~(clamp.changed /\ clamp.iterations < PassCap(Len(clamp.result)))

SlopeReturn ==
  [values |-> clamp.result, flags |-> clamp.flags,
   clampedCount |-> CountTrue(clamp.flags),
   changed |-> clamp.changed, iterations |-> clamp.iterations]

\* applySlopeClamp(halfWidthLeft) returns; applySlopeClamp(halfWidthRight) starts.
SlopeClampLeftDone ==
  /\ clamp.pc = "left"
  /\ SlopeExit
  /\ clamp' = [clamp EXCEPT !.pc = "right", !.leftClamp = SlopeReturn,
                            !.result = clamp.halfWidthRight,
                            !.flags = [i \in DOMAIN clamp.halfWidthRight |-> FALSE],
                            !.changed = TRUE, !.iterations = 0]
  /\ UNCHANGED notClamp

\* applySlopeClamp(halfWidthRight) returns and clampWidthDeltas builds its result.
SlopeClampRightDone ==
  /\ clamp.pc = "right"
  /\ SlopeExit
  /\ clamp' = [clamp EXCEPT
       !.pc = "done", !.rightClamp = SlopeReturn,
       !.diagnostics =
          [perSampleLimit |-> clamp.perSampleLimit,
           maxDeltaPer10m |-> clamp.maxDeltaPer10m,
           leftClamped |-> clamp.leftClamp.clampedCount,
           rightClamped |-> CountTrue(clamp.flags),
           leftSectors |-> summariseClampBySector(clamp.leftClamp.flags,
                              clamp.spacingMeters, clamp.sectorLength),
           rightSectors |-> summariseClampBySector(clamp.flags,
                              clamp.spacingMeters, clamp.sectorLength)]]
  /\ UNCHANGED notClamp

ClampNext == SlopeClampPass \/ SlopeClampLeftDone \/ SlopeClampRightDone

SpecClamp == ClampInit /\ [][ClampNext]_vars

(***************************************************************************)
(* Constraint enforcer: constraints.js projectOntoNormal,                  *)
(* enforceWidthConstraints.                                                *)
(* Units: coordinates, projections and half-widths in one length unit;     *)
(* clampScale in tenths (10 is the default 1) with a flag for NaN/Infinity. *)
(* The loop reads index i of every array once; the frame holds sample i    *)
(* of each array (the inputs read and the outputs written) and the stats.  *)
(***************************************************************************)
MaxSamples == 2     \* n, the length of the centerline

None == <<>>        \* lap[i] is undefined: the lap has no point at i

projectOntoNormal(point, center, normal) ==
  LET dx == point[1] - center[1]
      dy == point[2] - center[2]
  IN dx * normal[1] + dy * normal[2]

\* Number.isFinite(clampScale) ? Math.max(0.1, Math.min(clampScale, 1)) : 1
SafeScale(clampScale) ==
  IF ~clampScale.finite THEN 10 ELSE Max(1, Min(clampScale.tenths, 10))

RECURSIVE SideLimitFrom(_, _, _, _, _, _)
\* for (const lap of laps): the running maximum of the projections of the
\* laps' points at the sample, from 0; sign is 1 for left, -1 for right.
SideLimitFrom(points, k, limit, center, normal, sign) ==
  IF k > Len(points) THEN limit
  ELSE IF points[k] = None
  THEN SideLimitFrom(points, k + 1, limit, center, normal, sign)
  ELSE LET projection == sign * projectOntoNormal(points[k], center, normal)
       IN SideLimitFrom(points, k + 1,
                        IF projection > limit THEN projection ELSE limit,
                        center, normal, sign)

\* limit *= safeScale
ScaledLimit(points, center, normal, sign, safeScale) ==
  (SideLimitFrom(points, 1, 0, center, normal, sign) * safeScale) \div 10

\* if (limit > 0 && result[i] > limit): the sample is clamped
ClampsAlways(lapCount, limit, value) == lapCount > 0 /\ value > limit
ClampsFromLimit(lapCount, limit, value) == lapCount > 0 /\ limit > 0 /\ value >= limit
Clamps(lapCount, limit, value) == lapCount > 0 /\ limit > 0 /\ value > limit

GuardGeometry == {[center |-> <<0, 0>>, normal |-> <<0, 1>>],
                  [center |-> <<10, 10>>, normal |-> <<-1, 0>>]}
GuardPoints == {<<0, 20>>, <<20, -10>>, None}
GuardWidths == {-10, 10, 30}
GuardScales == {[finite |-> TRUE, tenths |-> t] : t \in {0, 5, 10, 20}}
               \cup {[finite |-> FALSE, tenths |-> 0]}
GuardLapCounts == 0..2

GuardInit ==
  /\ clamp = Idle /\ pipe = Idle /\ outl = Idle /\ resample = Idle /\ calib = Idle /\ budget = Idle /\ spline = Idle /\ stage = Idle /\ smooth = Idle /\ edges = Idle /\ loader = Idle /\ find = Idle /\ viewer = Idle /\ share = Idle /\ apex = Idle /\ envl = Idle /\ kern = Idle /\ page = Idle
  /\ \E n \in 1..MaxSamples, cs \in GuardScales, nl \in GuardLapCounts, nr \in GuardLapCounts :
    guard = [pc |-> "loop", n |-> n, i |-> 0,
             clampScale |-> cs, safeScale |-> SafeScale(cs),
             leftLaps |-> nl, rightLaps |-> nr,
             center |-> <<0, 0>>, normal |-> <<0, 0>>,
             leftPoints |-> <<>>, rightPoints |-> <<>>,
             halfWidthLeft |-> 0, halfWidthRight |-> 0,
             leftResult |-> 0, rightResult |-> 0,
             stats |-> [clampScale |-> cs, leftClamped |-> 0, rightClamped |-> 0,
                        leftIndices |-> <<>>, rightIndices |-> <<>>]]

\* The body of for (let i = 0; i < n; i++) for sample i: both sides.
EnforceSample ==
  /\ guard.pc = "loop"
  /\ guard.i < guard.n
  /\ \E g \in GuardGeometry, hl \in GuardWidths, hr \in GuardWidths :
     \E lp \in SeqsOver(GuardPoints, guard.leftLaps),
        rp \in SeqsOver(GuardPoints, guard.rightLaps) :
       LET limitL == ScaledLimit(lp, g.center, g.normal, 1, guard.safeScale)
           limitR == ScaledLimit(rp, g.center, g.normal, -1, guard.safeScale)
           cl == Clamps(guard.leftLaps, limitL, hl)
           cr == Clamps(guard.rightLaps, limitR, hr)
           st == guard.stats
       IN guard' = [guard EXCEPT
            !.pc = "sample",
            !.center = g.center, !.normal = g.normal,
            !.leftPoints = lp, !.rightPoints = rp,
            !.halfWidthLeft = hl, !.halfWidthRight = hr,
            !.leftResult = IF cl THEN limitL ELSE hl,
            !.rightResult = IF cr THEN limitR ELSE hr,
            !.stats = [st EXCEPT
               !.leftClamped = IF cl THEN @ + 1 ELSE @,
               !.leftIndices = IF cl THEN Append(@, guard.i) ELSE @,
               !.rightClamped = IF cr THEN @ + 1 ELSE @,
               !.rightIndices = IF cr THEN Append(@, guard.i) ELSE @]]
  /\ UNCHANGED notGuard

\* i++: the loop moves on to the next sample.
EnforceAdvance ==
  /\ guard.pc = "sample"
  /\ guard' = [guard EXCEPT
       !.pc = "loop", !.i = @ + 1,
       !.center = <<0, 0>>, !.normal = <<0, 0>>,
       !.leftPoints = <<>>, !.rightPoints = <<>>,
       !.halfWidthLeft = 0, !.halfWidthRight = 0,
       !.leftResult = 0, !.rightResult = 0]
  /\ UNCHANGED notGuard

EnforceReturn ==
  /\ guard.pc = "loop"
  /\ guard.i >= guard.n
  /\ guard' = [guard EXCEPT !.pc = "done"]
  /\ UNCHANGED notGuard

GuardNext == EnforceSample \/ EnforceAdvance \/ EnforceReturn

SpecGuard == GuardInit /\ [][GuardNext]_vars

(***************************************************************************)
(* Width estimator: spline.js computeTargetWidth,                          *)
(* buildConstantWidthEnvelope, detectWidthOutliers, clampWidths.           *)
(* Widths are in millimetres, angles in 1e-4 rad.                          *)
(***************************************************************************)
\* The subsequence of s whose elements satisfy Test, in order.
SelectPositive(s) == SelectSeq(s, LAMBDA x : x > 0)

\* computeTargetWidth: the median of the positive totals, 0 when there is none.
computeTargetWidth(halfWidthLeft, halfWidthRight) ==
  LET totals == SortSeq(SelectPositive([i \in DOMAIN halfWidthLeft |->
                                          halfWidthLeft[i] + halfWidthRight[i]]),
                        LAMBDA a, b : a < b)
      mid == Len(totals) \div 2
  IN IF Len(totals) = 0 THEN 0
     ELSE IF Len(totals) % 2 = 1 THEN totals[mid + 1]
     ELSE (totals[mid] + totals[mid + 1]) \div 2

AngleTie == 10                    \* Math.abs(angle) < 1e-3
FallbackWidth == 6 * MilliPerMeter        \* targetWidth > 0 ? targetWidth : 6
OutsideFloor == (3 * MilliPerMeter) \div 4   \* if (outsideHalf < 0.75) outsideHalf = 0.75

InsideLeftUpToTie(angle, lastInsideLeft) ==
  IF Abs(angle) <= AngleTie THEN lastInsideLeft ELSE angle >= 0
\* if (Math.abs(angle) < 1e-3) insideLeft = lastInsideLeft; else insideLeft = angle >= 0
InsideLeftAt(angle, lastInsideLeft) ==
  IF Abs(angle) < AngleTie THEN lastInsideLeft ELSE angle >= 0

RECURSIVE InsideLeftFrom(_, _, _, _)
\* insideLeft of samples 1..Len(signedAngles), appended to acc; lastInsideLeft
\* is carried from sample to sample.
InsideLeftFrom(signedAngles, i, lastInsideLeft, acc) ==
  IF i > Len(signedAngles) THEN acc
  ELSE LET insideLeft == InsideLeftAt(signedAngles[i], lastInsideLeft)
       IN InsideLeftFrom(signedAngles, i + 1, insideLeft, Append(acc, insideLeft))

EnvelopeSampleUnshared(insideRaw, targetWidth) ==
  LET minWidth == IF targetWidth > 0 THEN targetWidth ELSE FallbackWidth
      insideHalf == Max(0, insideRaw)
      scaled == (95 * targetWidth) \div 100
      desiredTotal == Max(minWidth, IF scaled # 0 THEN scaled ELSE insideHalf * 2)
  IN <<insideHalf, Max(OutsideFloor, desiredTotal - insideHalf)>>
\* One sample of buildConstantWidthEnvelope: <<insideHalf, outsideHalf>>.
EnvelopeSample(insideRaw, targetWidth) ==
  LET minWidth == IF targetWidth > 0 THEN targetWidth ELSE FallbackWidth
      insideHalf == Max(0, insideRaw)
      scaled == (95 * targetWidth) \div 100
      desiredTotal == Max(minWidth, IF scaled # 0 THEN scaled ELSE insideHalf * 2)
      outside0 == desiredTotal - insideHalf
      outside1 == IF 10 * outside0 < 4 * insideHalf
                  THEN (4 * insideHalf) \div 10 ELSE outside0
      outsideHalf == IF outside1 < OutsideFloor THEN OutsideFloor ELSE outside1
  IN <<insideHalf, outsideHalf>>

buildConstantWidthEnvelope(halfWidthLeft, halfWidthRight, signedAngles, targetWidth) ==
  LET n == Len(halfWidthLeft)
      inside == InsideLeftFrom(signedAngles, 1, TRUE, <<>>)
      pair == [i \in 1..n |->
                 EnvelopeSample(IF inside[i] THEN halfWidthLeft[i] ELSE halfWidthRight[i],
                                targetWidth)]
  IN [halfWidthLeft |-> [i \in 1..n |-> IF inside[i] THEN pair[i][1] ELSE pair[i][2]],
      halfWidthRight |-> [i \in 1..n |-> IF inside[i] THEN pair[i][2] ELSE pair[i][1]],
      stats |-> [targetWidth |-> IF targetWidth > 0 THEN targetWidth ELSE FallbackWidth,
                 insideLeftCount |-> CountTrue(inside),
                 insideRightCount |-> n - CountTrue(inside)]]

\* Number.prototype.toFixed(2) of a length in millimetres: centimetres.
ToFixed2(mm) == IF mm >= 0 THEN (mm + 5) \div 10 ELSE -((5 - mm) \div 10)

ExceedsChangeInclusive(delta, maxWidthChange) == delta >= maxWidthChange
\* deltaLeft > maxWidthChange, deltaRight > maxWidthChange
ExceedsChange(delta, maxWidthChange) == delta > maxWidthChange

\* The outliers pushed for sample i (1-based), in the order of the checks.
OutliersAt(halfWidthLeft, halfWidthRight, i, maxWidthChange, minWidth, maxWidth) ==
  LET wl == halfWidthLeft[i]
      wr == halfWidthRight[i]
      totalWidth == wl + wr
      deltaLeft == IF i > 1 THEN Abs(wl - halfWidthLeft[i - 1]) ELSE 0
      deltaRight == IF i > 1 THEN Abs(wr - halfWidthRight[i - 1]) ELSE 0
      entry(kind, value) == <<[index |-> i - 1, reason |-> kind, value |-> ToFixed2(value)]>>
  IN (IF wl < 0 THEN entry("Negative left width", wl) ELSE <<>>)
     \o (IF wr < 0 THEN entry("Negative right width", wr) ELSE <<>>)
     \o (IF totalWidth < minWidth THEN entry("Total width too narrow", totalWidth) ELSE <<>>)
     \o (IF totalWidth > maxWidth THEN entry("Total width too wide", totalWidth) ELSE <<>>)
     \o (IF i > 1 /\ ExceedsChange(deltaLeft, maxWidthChange)
         THEN entry("Large left width change", deltaLeft) ELSE <<>>)
     \o (IF i > 1 /\ ExceedsChange(deltaRight, maxWidthChange)
         THEN entry("Large right width change", deltaRight) ELSE <<>>)

RECURSIVE OutliersFrom(_, _, _, _, _, _, _)
OutliersFrom(halfWidthLeft, halfWidthRight, i, outliers, maxWidthChange, minWidth, maxWidth) ==
  IF i > Len(halfWidthLeft) THEN outliers
  ELSE OutliersFrom(halfWidthLeft, halfWidthRight, i + 1,
                    outliers \o OutliersAt(halfWidthLeft, halfWidthRight, i,
                                           maxWidthChange, minWidth, maxWidth),
                    maxWidthChange, minWidth, maxWidth)

RECURSIVE SeqMin(_)
SeqMin(s) == IF Len(s) = 1 THEN s[1] ELSE Min(Head(s), SeqMin(Tail(s)))
RECURSIVE SeqMax(_)
SeqMax(s) == IF Len(s) = 1 THEN s[1] ELSE Max(Head(s), SeqMax(Tail(s)))

\* The stats block; with n = 0 the averages are NaN and the extremes infinite.
WidthStats(halfWidthLeft, halfWidthRight) ==
  LET n == Len(halfWidthLeft)
  IN IF n = 0 THEN [finite |-> FALSE]
     ELSE [finite |-> TRUE,
           avgLeft |-> ToFixed2(SeqSum(halfWidthLeft) \div n),
           avgRight |-> ToFixed2(SeqSum(halfWidthRight) \div n),
           avgTotal |-> ToFixed2((SeqSum(halfWidthLeft) + SeqSum(halfWidthRight)) \div n),
           minLeft |-> ToFixed2(SeqMin(halfWidthLeft)),
           maxLeft |-> ToFixed2(SeqMax(halfWidthLeft)),
           minRight |-> ToFixed2(SeqMin(halfWidthRight)),
           maxRight |-> ToFixed2(SeqMax(halfWidthRight))]

DefaultMaxWidthChange == 5 * MilliPerMeter
DefaultMinWidth == 3 * MilliPerMeter
DefaultMaxWidth == 20 * MilliPerMeter

detectWidthOutliers(halfWidthLeft, halfWidthRight, maxWidthChange, minWidth, maxWidth) ==
  [outliers |-> OutliersFrom(halfWidthLeft, halfWidthRight, 1, <<>>,
                             maxWidthChange, minWidth, maxWidth),
   stats |-> WidthStats(halfWidthLeft, halfWidthRight)]

MinHalfWidth == 2 * MilliPerMeter
MaxHalfWidth == 15 * MilliPerMeter

clampWidths(halfWidthLeft, halfWidthRight, minHalfWidth, maxHalfWidth) ==
  [halfWidthLeft |-> [i \in DOMAIN halfWidthLeft |->
                        Max(minHalfWidth, Min(maxHalfWidth, halfWidthLeft[i]))],
   halfWidthRight |-> [i \in DOMAIN halfWidthLeft |->
                         Max(minHalfWidth, Min(maxHalfWidth, halfWidthRight[i]))]]

(***************************************************************************)
(* Savitzky-Golay smoothing: smoothing.js getSavitzkyGolayKernel,          *)
(* invertMatrix, savitzkyGolaySmooth.  The kernel is row 0 of              *)
(* (A^T A)^-1 A^T; it is kept as integer numerators over one denominator,  *)
(* with the sample positions in units of safeSpacing (row 0 does not       *)
(* depend on the unit of the positions).                                   *)
(***************************************************************************)
RECURSIVE Pow(_, _)
Pow(t, p) == IF p = 0 THEN 1 ELSE t * Pow(t, p - 1)

\* samplePositions: i * safeSpacing for i in -half..half, in units of safeSpacing
samplePositions(windowSize) ==
  [k \in 1..windowSize |-> k - 1 - (windowSize \div 2)]

\* ATA = A^T A with A[k][p] = t_k^p
NormalMatrix(windowSize, order) ==
  LET t == samplePositions(windowSize)
  IN Tuple([p \in 1..(order + 1) |-> Tuple([q \in 1..(order + 1) |->
        SeqSum([k \in 1..windowSize |-> Pow(t[k], p + q - 2)])], order + 1)], order + 1)

Minor(M, m, r, c) ==
  [i \in 1..(m - 1) |-> [j \in 1..(m - 1) |->
     M[IF i < r THEN i ELSE i + 1][IF j < c THEN j ELSE j + 1]]]

RECURSIVE Det(_, _)
Det(M, m) ==
  IF m = 0 THEN 1
  ELSE IF m = 1 THEN M[1][1]
  ELSE SeqSum([j \in 1..m |->
         (IF j % 2 = 1 THEN 1 ELSE -1) * M[1][j] * Det(Minor(M, m, 1, j), m - 1)])

\* invertMatrix, row 0 only: the cofactors of the first column over the
\* determinant; a zero determinant is the 'Matrix is singular' throw.
getSavitzkyGolayKernel(windowSize, order) ==
  LET m == order + 1
      ATA == NormalMatrix(windowSize, order)
      det == Det(ATA, m)
      t == samplePositions(windowSize)
      cof(p) == (IF p % 2 = 1 THEN 1 ELSE -1) * Det(Minor(ATA, m, p, 1), m - 1)
      cofactors == Tuple([p \in 1..m |-> cof(p)], m)
      raw == Tuple([k \in 1..windowSize |->
                      SeqSum([p \in 1..m |-> cofactors[p] * Pow(t[k], p - 1)])], windowSize)
      g == Gcd(SeqGcd(raw), det)
  IN IF det = 0 THEN [singular |-> TRUE]
     ELSE [singular |-> FALSE,
           weights |-> Tuple([k \in 1..windowSize |->
                                (raw[k] * (IF det < 0 THEN -1 ELSE 1)) \div g], windowSize),
           denominator |-> Abs(det) \div g]

\* The remainder operator of the source language: the sign of the dividend.
JsRem(a, n) == IF a >= 0 THEN a % n ELSE -((-a) % n)

\* index = (i + k - half + n) % n, 0-based
CircularIndex(i, k, half, n) == JsRem(i + k - half + n, n)

SGWindow == 9               \* windowSize: 9
SGOrder == 3                \* order: 3

\* sgKernelCache: the kernel of each (windowSize, order) is built once.
sgKernelCache ==
  Tuple([w \in 1..SGWindow |->
           Tuple([o \in 1..SGOrder |-> getSavitzkyGolayKernel(w, o)], SGOrder)], SGWindow)

\* savitzkyGolaySmooth, circular, for arrays of at least half samples (every
\* index of the window is then in range): sum / weightSum, to the nearest
\* millimetre.
savitzkyGolaySmooth(values, windowSize, order) ==
  LET window == IF windowSize % 2 = 0 THEN windowSize + 1 ELSE windowSize
      kernel == sgKernelCache[window][order]
      half == window \div 2
      n == Len(values)
      sum(i) == SeqSum([k \in 1..window |->
                  kernel.weights[k] * values[CircularIndex(i - 1, k - 1, half, n) + 1]])
      weightSum == SeqSum(kernel.weights)
  IN [i \in 1..n |-> IF weightSum # 0 THEN RoundDiv(sum(i), weightSum) ELSE values[i]]

savitzkyGolayWidthSmooth(halfWidthLeft, halfWidthRight, windowSize, order) ==
  [halfWidthLeft |-> savitzkyGolaySmooth(halfWidthLeft, windowSize, order),
   halfWidthRight |-> savitzkyGolaySmooth(halfWidthRight, windowSize, order)]

(***************************************************************************)
(* The width pipeline of the generator: generateTrackMap.js main(),        *)
(* step 7.  Each stage is one action; the frame keeps every stage's        *)
(* output under the name main() gives it.                                  *)
(***************************************************************************)
\* clampWidthDeltas on whole arrays
clampWidthDeltas(halfWidthLeft, halfWidthRight, spacingMeters, maxDeltaPer10m, sectorLength) ==
  LET perSampleLimit == PerSampleLimit(spacingMeters, maxDeltaPer10m)
      leftClamp == applySlopeClamp(halfWidthLeft, perSampleLimit)
      rightClamp == applySlopeClamp(halfWidthRight, perSampleLimit)
  IN [halfWidthLeft |-> leftClamp.values,
      halfWidthRight |-> rightClamp.values,
      diagnostics |-> [perSampleLimit |-> perSampleLimit,
                       maxDeltaPer10m |-> maxDeltaPer10m,
                       leftClamped |-> leftClamp.clampedCount,
                       rightClamped |-> rightClamp.clampedCount,
                       leftSectors |-> summariseClampBySector(leftClamp.flags,
                                                              spacingMeters, sectorLength),
                       rightSectors |-> summariseClampBySector(rightClamp.flags,
                                                               spacingMeters, sectorLength)]]

\* lap[i] of every lap of one side, None where the lap is shorter
PointsAt(laps, i) ==
  [k \in DOMAIN laps |-> IF i <= Len(laps[k]) THEN laps[k][i] ELSE None]

\* One side of enforceWidthConstraints on whole arrays; sign is 1 for left.
EnforceSide(centerline, normals, laps, values, sign, safeScale) ==
  LET limit(i) == ScaledLimit(PointsAt(laps, i), centerline[i], normals[i], sign, safeScale)
      hit == [i \in DOMAIN values |->
                i <= Len(centerline) /\ Clamps(Len(laps), limit(i), values[i])]
  IN [values |-> [i \in DOMAIN values |-> IF hit[i] THEN limit(i) ELSE values[i]],
      clamped |-> CountTrue(hit),
      indices |-> SelectSeq([i \in DOMAIN values |-> i - 1], LAMBDA j : hit[j + 1])]

enforceWidthConstraints(centerline, normals, rawSamples, halfWidthLeft, halfWidthRight, clampScale) ==
  LET safeScale == SafeScale(clampScale)
      left == EnforceSide(centerline, normals, rawSamples.left, halfWidthLeft, 1, safeScale)
      right == EnforceSide(centerline, normals, rawSamples.right, halfWidthRight, -1, safeScale)
  IN [halfWidthLeft |-> left.values,
      halfWidthRight |-> right.values,
      stats |-> [clampScale |-> clampScale,
                 leftClamped |-> left.clamped, rightClamped |-> right.clamped,
                 leftIndices |-> left.indices, rightIndices |-> right.indices]]

MaxDeltaPer10m == 250       \* maxDeltaPer10m: 0.25, in millimetres
DefaultSectorLength == 100 * MilliPerMeter
UnitScale == [finite |-> TRUE, tenths |-> 10]     \* clampScale: 1

\* Inputs of the pipeline.  The raw half-widths of one side are a base with
\* at most two spikes (a lap that ran wide), the other side is constant.
PipeCounts == {8, 9}
PipeBase == {0, 3 * MilliPerMeter}
PipeSpike == 20 * MilliPerMeter
PipeOther == 4 * MilliPerMeter
PipeAngles == {-100, 0, 100}
PipeSpacing == {40, MilliPerMeter}
PipeProjections == {0, MilliPerMeter, 30 * MilliPerMeter}   \* 0: no raw laps

Spiked(n, base, at) == [i \in 1..n |-> IF i \in at THEN PipeSpike ELSE base]
SpikeSets(n) == {at \in SUBSET (1..n) : Cardinality(at) <= 2}

\* One raw lap per side, every point at the same distance from the centerline.
PipeRawSamples(n, projection) ==
  IF projection = 0 THEN [left |-> <<>>, right |-> <<>>]
  ELSE [left |-> <<[i \in 1..n |-> <<0, projection>>]>>,
        right |-> <<[i \in 1..n |-> <<0, -projection>>]>>]

PipeInit ==
  /\ clamp = Idle /\ guard = Idle /\ outl = Idle /\ resample = Idle /\ calib = Idle /\ budget = Idle /\ spline = Idle /\ stage = Idle /\ smooth = Idle /\ edges = Idle /\ loader = Idle /\ find = Idle /\ viewer = Idle /\ share = Idle /\ apex = Idle /\ envl = Idle /\ kern = Idle /\ page = Idle
  /\ \E n \in PipeCounts, base \in PipeBase, angle \in PipeAngles,
        spacing \in PipeSpacing, projection \in PipeProjections :
       \E at \in SpikeSets(n) :
         pipe = [pc |-> "rawWidths",
                 centerline |-> [i \in 1..n |-> <<0, 0>>],
                 normals |-> [i \in 1..n |-> <<0, 1>>],
                 signedAngles |-> [i \in 1..n |-> angle],
                 rawSamples |-> PipeRawSamples(n, projection),
                 spacingMeters |-> spacing,
                 rawWidths |-> [halfWidthLeft |-> Spiked(n, base, at),
                                halfWidthRight |-> [i \in 1..n |-> PipeOther]]]

\* targetWidth, constantEnvelope, rawLeft, rawRight
BuildEnvelope ==
  /\ pipe.pc = "rawWidths"
  /\ LET targetWidth == computeTargetWidth(pipe.rawWidths.halfWidthLeft,
                                           pipe.rawWidths.halfWidthRight)
         constantEnvelope == buildConstantWidthEnvelope(pipe.rawWidths.halfWidthLeft,
                                                        pipe.rawWidths.halfWidthRight,
                                                        pipe.signedAngles, targetWidth)
     IN pipe' = [pc |-> "envelope", targetWidth |-> targetWidth,
                 rawLeft |-> constantEnvelope.halfWidthLeft,
                 rawRight |-> constantEnvelope.halfWidthRight,
                 envelopeStats |-> constantEnvelope.stats] @@ pipe
  /\ UNCHANGED notPipe

DetectOutliers ==
  /\ pipe.pc = "envelope"
  /\ pipe' = [pc |-> "outliers",
              outlierReport |-> detectWidthOutliers(pipe.rawLeft, pipe.rawRight,
                                  DefaultMaxWidthChange, DefaultMinWidth, DefaultMaxWidth)]
             @@ pipe
  /\ UNCHANGED notPipe

ClampOutliers ==
  /\ pipe.pc = "outliers"
  /\ LET c == clampWidths(pipe.rawLeft, pipe.rawRight, MinHalfWidth, MaxHalfWidth)
     IN pipe' = [pc |-> "clamped", clampedLeft |-> c.halfWidthLeft,
                 clampedRight |-> c.halfWidthRight] @@ pipe
  /\ UNCHANGED notPipe

SmoothWidths ==
  /\ pipe.pc = "clamped"
  /\ pipe' = [pc |-> "smoothed",
              savitzkyWidths |-> savitzkyGolayWidthSmooth(pipe.clampedLeft, pipe.clampedRight,
                                                          SGWindow, SGOrder)] @@ pipe
  /\ UNCHANGED notPipe

LimitSlope ==
  /\ pipe.pc = "smoothed"
  /\ pipe' = [pc |-> "slopeLimited",
              slopeLimited |-> clampWidthDeltas(pipe.savitzkyWidths.halfWidthLeft,
                                                pipe.savitzkyWidths.halfWidthRight,
                                                pipe.spacingMeters, MaxDeltaPer10m,
                                                DefaultSectorLength)] @@ pipe
  /\ UNCHANGED notPipe

EnforceGuardrails ==
  /\ pipe.pc = "slopeLimited"
  /\ LET g == enforceWidthConstraints(pipe.centerline, pipe.normals, pipe.rawSamples,
                                      pipe.slopeLimited.halfWidthLeft,
                                      pipe.slopeLimited.halfWidthRight, UnitScale)
     IN pipe' = [pc |-> "done", halfWidthLeft |-> g.halfWidthLeft,
                 halfWidthRight |-> g.halfWidthRight, guardrailStats |-> g.stats] @@ pipe
  /\ UNCHANGED notPipe

PipeNext ==
  \/ BuildEnvelope \/ DetectOutliers \/ ClampOutliers
  \/ SmoothWidths \/ LimitSlope \/ EnforceGuardrails

SpecPipe == PipeInit /\ [][PipeNext]_vars

(***************************************************************************)
(* Resampler: resampler.js.  Coordinates and distances are integers (the   *)
(* unit of the telemetry, scaled); a progress value is an exact fraction   *)
(* n/d, with 0/0 for NaN; an interpolated coordinate is rounded to the     *)
(* nearest unit.  A field that may be null is a sequence of length <= 1.   *)
(***************************************************************************)
Some(v) == <<v>>

\* sample.z != null ? sample.z : sample.y
getPlanarY(sample) == IF sample.z # None THEN sample.z ELSE sample.y

\* s.x != null && getPlanarY(s) != null
HasPosition(s) == s.x # None /\ getPlanarY(s) # None

calculateCumulativeDistance(samples) == [i \in DOMAIN samples |-> samples[i].distance]

NaN == [n |-> 0, d |-> 0]

\* The fraction n/d in lowest terms with a positive denominator; 0/0 is NaN.
Frac(n, d) ==
  LET g == Gcd(n, d)
  IN IF d = 0 THEN NaN
     ELSE IF d < 0 THEN [n |-> (-n) \div g, d |-> (-d) \div g]
     ELSE [n |-> n \div g, d |-> d \div g]

\* a < b; false when either is NaN
FracLess(a, b) == a.d # 0 /\ b.d # 0 /\ a.n * b.d < b.n * a.d

\* a - b
FracMinus(a, b) == Frac(a.n * b.d - b.n * a.d, a.d * b.d)

\* a / b for b > 0
FracOver(a, b) == Frac(a.n * b.d, a.d * b.n)

SpanIsZeroNever(span) == FALSE
\* span === 0
SpanIsZero(span) == span = 0

normalizeToProgress(cumulativeDistance) ==
  IF Len(cumulativeDistance) = 0 THEN <<>>
  ELSE LET minDistance == cumulativeDistance[1]
           maxDistance == cumulativeDistance[Len(cumulativeDistance)]
           span == maxDistance - minDistance
       IN IF SpanIsZero(span) THEN [i \in DOMAIN cumulativeDistance |-> Frac(0, 1)]
          ELSE [i \in DOMAIN cumulativeDistance |->
                  Frac(cumulativeDistance[i] - minDistance, span)]

\* a + (b - a) * t
LerpSwapped(a, b, t) == b + RoundDiv((a - b) * t.n, t.d)
lerp(a, b, t) == a + RoundDiv((b - a) * t.n, t.d)

RECURSIVE BinarySearchFrom(_, _, _, _)
\* the while loop of binarySearchGE; left, right and the result are 0-based
BinarySearchFrom(arr, target, left, right) ==
  IF left < right
  THEN LET mid == (left + right) \div 2
       IN IF FracLess(arr[mid + 1], target)
          THEN BinarySearchFrom(arr, target, mid + 1, right)
          ELSE BinarySearchFrom(arr, target, left, mid)
  ELSE left

binarySearchGE(arr, target) == BinarySearchFrom(arr, target, 0, Len(arr))

TargetProgressOpen(i, gridSize) == Frac(i, gridSize)
\* targetProgress = i / (gridSize - 1)
TargetProgress(i, gridSize) == Frac(i, gridSize - 1)

\* The body of the grid loop of resampleOnGrid for index i (0-based).
GridPoint(validSamples, progress, i, gridSize) ==
  LET targetProgress == TargetProgress(i, gridSize)
      rightIdx == binarySearchGE(progress, targetProgress)
      last == Len(validSamples)
      leftIdx == rightIdx - 1
      p0 == progress[leftIdx + 1]
      p1 == progress[rightIdx + 1]
      span == FracMinus(p1, p0)
      t == IF span.n > 0 THEN FracOver(FracMinus(targetProgress, p0), span) ELSE Frac(0, 1)
      a == validSamples[leftIdx + 1]
      b == validSamples[rightIdx + 1]
  IN IF rightIdx = 0
     THEN [progress |-> targetProgress,
           x |-> validSamples[1].x[1], y |-> getPlanarY(validSamples[1])[1]]
     ELSE IF rightIdx >= Len(progress)
     THEN [progress |-> targetProgress,
           x |-> validSamples[last].x[1], y |-> getPlanarY(validSamples[last])[1]]
     ELSE [progress |-> targetProgress,
           x |-> lerp(a.x[1], b.x[1], t),
           y |-> lerp(getPlanarY(a)[1], getPlanarY(b)[1], t)]

\* resampleOnGrid: the grid, or the 'Insufficient spatial data' throw
resampleOnGrid(samples, gridSize) ==
  LET validSamples == SelectSeq(samples, HasPosition)
      progress == normalizeToProgress(calculateCumulativeDistance(validSamples))
  IN IF Len(validSamples) < 2
     THEN [threw |-> TRUE, grid |-> <<>>]
     ELSE [threw |-> FALSE,
           grid |-> Tuple([i \in 1..gridSize |->
                             GridPoint(validSamples, progress, i - 1, gridSize)], gridSize)]

\* Inputs of resampleOnGrid: traces of up to MaxTrace samples.
MaxTrace == 3
MaxGrid == 4
TraceSamples ==
  {[x |-> x, y |-> Some(2 * d), z |-> IF d = 10 THEN Some(70) ELSE None, distance |-> d] :
     x \in {None, Some(0), Some(30), Some(100)}, d \in {0, 10, 40}}
  \cup {[x |-> Some(30), y |-> None, z |-> None, distance |-> 10]}
Traces == SeqsUpTo(TraceSamples, MaxTrace)

GridInit ==
  /\ clamp = Idle /\ guard = Idle /\ pipe = Idle /\ outl = Idle /\ calib = Idle /\ budget = Idle /\ spline = Idle /\ stage = Idle /\ smooth = Idle /\ edges = Idle /\ loader = Idle /\ find = Idle /\ viewer = Idle /\ share = Idle /\ apex = Idle /\ envl = Idle /\ kern = Idle /\ page = Idle
  /\ \E samples \in Traces, gridSize \in 0..MaxGrid :
       resample = [pc |-> "filter", samples |-> samples, gridSize |-> gridSize]

\* validSamples, the throw, cumulative and progress
GridFilter ==
  /\ resample.pc = "filter"
  /\ LET validSamples == SelectSeq(resample.samples, HasPosition)
     IN IF Len(validSamples) < 2
        THEN resample' = [resample EXCEPT !.pc = "threw"]
        ELSE resample' = [pc |-> "loop", validSamples |-> validSamples,
                      progress |-> normalizeToProgress(
                                     calculateCumulativeDistance(validSamples)),
                      grid |-> <<>>, i |-> 0] @@ resample
  /\ UNCHANGED notGrid

\* one turn of the grid loop
GridPush ==
  /\ resample.pc = "loop"
  /\ resample.i < resample.gridSize
  /\ resample' = [resample EXCEPT
                !.grid = Append(@, GridPoint(resample.validSamples, resample.progress,
                                             resample.i, resample.gridSize)),
                !.i = @ + 1]
  /\ UNCHANGED notGrid

GridReturn ==
  /\ resample.pc = "loop"
  /\ ~(resample.i < resample.gridSize)
  /\ resample' = [resample EXCEPT !.pc = "done"]
  /\ UNCHANGED notGrid

GridNext == GridFilter \/ GridPush \/ GridReturn

SpecGrid == GridInit /\ [][GridNext]_vars

(***************************************************************************)
(* Heading alignment: resampler.js computeHeadings, wrapAngle,             *)
(* medianAngle, rotateGrid.  Angles are integers in units of 1e-4 rad;     *)
(* atan2, sin and cos are fixed-point approximations (atan2 to within      *)
(* 2e-3 rad and exact at the multiples of pi/4, sin and cos to within      *)
(* 3e-4), sines and cosines are in units of 1e-4.                          *)
(***************************************************************************)
Pi == 31416
HalfPi == Pi \div 2
QuarterPi == Pi \div 4
TwoPi == 2 * Pi
TrigOne == 10000              \* 1.0 as a sine, a cosine or a ratio

\* atan(lo / hi) for 0 <= lo <= hi, hi > 0
AtanRatio(lo, hi) ==
  LET r == (TrigOne * lo) \div hi
  IN (QuarterPi * r) \div TrigOne
     + (((r * (TrigOne - r)) \div TrigOne) * (2447 + (663 * r) \div TrigOne)) \div TrigOne

\* Math.atan2(dy, dx); atan2(0, 0) is 0
Atan2(dy, dx) ==
  LET ax == Abs(dx)
      ay == Abs(dy)
      octant == IF ax >= ay THEN AtanRatio(ay, ax) ELSE HalfPi - AtanRatio(ax, ay)
      half == IF dx < 0 THEN Pi - octant ELSE octant
  IN IF dx = 0 /\ dy = 0 THEN 0
     ELSE IF dy < 0 THEN -half ELSE half

\* sin and cos on [0, pi/4] by their Taylor polynomials
SinSmall(x) ==
  LET x2 == (x * x) \div TrigOne
      x3 == (x2 * x) \div TrigOne
      x5 == (x3 * x2) \div TrigOne
  IN x - x3 \div 6 + x5 \div 120

CosSmall(x) ==
  LET x2 == (x * x) \div TrigOne
      x4 == (x2 * x2) \div TrigOne
      x6 == (x4 * x2) \div TrigOne
  IN TrigOne - x2 \div 2 + x4 \div 24 - x6 \div 720

\* on [0, pi/2]
SinQuadrant(x) == IF x <= QuarterPi THEN SinSmall(x) ELSE CosSmall(HalfPi - x)
CosQuadrant(x) == IF x <= QuarterPi THEN CosSmall(x) ELSE SinSmall(HalfPi - x)

\* Math.sin(angle), Math.cos(angle)
Sin(angle) ==
  LET m == angle % TwoPi
  IN IF m <= HalfPi THEN SinQuadrant(m)
     ELSE IF m <= Pi THEN SinQuadrant(Pi - m)
     ELSE IF m <= Pi + HalfPi THEN -SinQuadrant(m - Pi)
     ELSE -SinQuadrant(TwoPi - m)

Cos(angle) ==
  LET m == angle % TwoPi
  IN IF m <= HalfPi THEN CosQuadrant(m)
     ELSE IF m <= Pi THEN -CosQuadrant(Pi - m)
     ELSE IF m <= Pi + HalfPi THEN -CosQuadrant(m - Pi)
     ELSE CosQuadrant(TwoPi - m)

\* headings[i] = atan2 of the step from the circular previous to the circular next point
computeHeadings(grid) ==
  LET n == Len(grid)
  IN Tuple([i \in 1..n |->
              LET prev == grid[((i - 2 + n) % n) + 1]
                  next == grid[(i % n) + 1]
              IN Atan2(next.y - prev.y, next.x - prev.x)], n)

RECURSIVE WrapAngleHalfOpen(_)
\* wraps to (0, 2 pi]
WrapAngleHalfOpen(angle) ==
  IF angle <= 0 THEN WrapAngleHalfOpen(angle + TwoPi)
  ELSE IF angle > TwoPi THEN WrapAngleHalfOpen(angle - TwoPi)
  ELSE angle
RECURSIVE wrapAngle(_)
wrapAngle(angle) ==
  IF angle <= -Pi THEN wrapAngle(angle + TwoPi)
  ELSE IF angle > Pi THEN wrapAngle(angle - TwoPi)
  ELSE angle

medianAngle(values) ==
  LET sorted == SortSeq(values, LAMBDA a, b : a < b)
      mid == Len(sorted) \div 2
  IN IF Len(values) = 0 THEN 0
     ELSE IF Len(sorted) % 2 = 1 THEN sorted[mid + 1]
     ELSE (sorted[mid] + sorted[mid + 1]) \div 2

\* Math.abs(normalizedDelta) > 1e-4
NeedsRotation(normalizedDelta) == Abs(normalizedDelta) > 1

\* { ...point, x, y }
RotatedPoint(point, x, y) == [point EXCEPT !.x = x, !.y = y]

\* rotateGrid: about the centroid of the grid; an angle below 1e-6 returns the grid
rotateGrid(grid, angle) ==
  IF angle = 0 THEN grid
  ELSE LET n == Len(grid)
           cx == RoundDiv(SeqSum([i \in 1..n |-> grid[i].x]), n)
           cy == RoundDiv(SeqSum([i \in 1..n |-> grid[i].y]), n)
           cos == Cos(angle)
           sin == Sin(angle)
       IN Tuple([i \in 1..n |->
                   LET dx == grid[i].x - cx
                       dy == grid[i].y - cy
                   IN RotatedPoint(grid[i],
                                   cx + RoundDiv(dx * cos - dy * sin, TrigOne),
                                   cy + RoundDiv(dx * sin + dy * cos, TrigOne))], n)

\* averageGrid(gridList, label): null for an empty list, the 'Grid size
\* mismatch' throw, the only grid itself, or the point-by-point mean.
averageGrid(gridList) ==
  LET length == Len(gridList[1])
      count == Len(gridList)
  IN IF Len(gridList) = 0 THEN [threw |-> FALSE, grid |-> None, isNull |-> TRUE]
     ELSE IF \E g \in DOMAIN gridList : Len(gridList[g]) # length
     THEN [threw |-> TRUE, grid |-> None, isNull |-> TRUE]
     ELSE IF count = 1 THEN [threw |-> FALSE, grid |-> gridList[1], isNull |-> FALSE]
     ELSE [threw |-> FALSE, isNull |-> FALSE,
           grid |-> Tuple([i \in 1..length |->
                     [progress |-> gridList[1][i].progress,
                      x |-> RoundDiv(SeqSum([g \in 1..count |-> gridList[g][i].x]), count),
                      y |-> RoundDiv(SeqSum([g \in 1..count |-> gridList[g][i].y]), count)]],
                     length)]

(***************************************************************************)
(* resampleCalibrationLaps.  Lengths are in decimetres.  The frame holds   *)
(* the function's locals; grid, headings, deltas and normalizedDelta are   *)
(* those of the loop turn just finished.                                   *)
(***************************************************************************)
MinSampleCount == 200        \* Math.max(200, ...)
MinSpacing == 1              \* Math.max(spacingMeters, 0.1)

\* lapLengths: the length of every lap with at least 2 valid samples and a
\* positive length
lapLengthsOf(classifiedLaps) ==
  LET lengthOf(k) ==
        LET validSamples == SelectSeq(classifiedLaps[k].lap.samples, HasPosition)
            cumulative == calculateCumulativeDistance(validSamples)
        IN IF Len(validSamples) < 2 THEN 0
           ELSE cumulative[Len(cumulative)] - cumulative[1]
  IN SelectSeq([k \in DOMAIN classifiedLaps |-> lengthOf(k)], LAMBDA len : len > 0)

\* explicitSampleCount ? explicitSampleCount
\*   : Math.max(200, Math.round((averageLength || 0) / Math.max(spacingMeters, 0.1)))
resolvedSampleCount(explicitSampleCount, lapLengths, spacingMeters) ==
  IF explicitSampleCount # None /\ explicitSampleCount # Some(0)
  THEN explicitSampleCount[1]
  ELSE IF Len(lapLengths) = 0 THEN MinSampleCount
  ELSE Max(MinSampleCount,
           RoundDiv(SeqSum(lapLengths), Len(lapLengths) * Max(spacingMeters, MinSpacing)))

\* headingOffsets[filename || type]
OffsetKey(entry) == IF entry.filename # None THEN entry.filename[1] ELSE entry.type

\* obj[key] = value on a map kept as a function
Put(map, key, value) == [k \in DOMAIN map \cup {key} |-> IF k = key THEN value ELSE map[k]]

Roles == {"left", "center", "right"}

\* Calibration traces: a square loop (Square), the same loop turned by a
\* quarter turn (Turned), a larger loop of the same shape elsewhere (Wide),
\* and a trace with a single valid sample (Short).
Corner(x, y, d) == [x |-> Some(x), y |-> Some(y), z |-> None, distance |-> d]
\* A closed square lap from (x0, y0), anticlockwise; quarter is 1 when its
\* first side runs along +x and 2 when it runs along +y.
SquareLap(x0, y0, side, quarter) ==
  LET ux == IF quarter = 1 THEN side ELSE 0
      uy == IF quarter = 1 THEN 0 ELSE side
  IN <<Corner(x0, y0, 0), Corner(x0 + ux, y0 + uy, side),
       Corner(x0 + ux - uy, y0 + uy + ux, 2 * side),
       Corner(x0 - uy, y0 + ux, 3 * side), Corner(x0, y0, 4 * side)>>
Square == SquareLap(0, 0, 120, 1)
Turned == SquareLap(0, 0, 120, 2)
Wide == SquareLap(60, 60, 240, 1)
Short == <<Corner(0, 0, 0), [x |-> None, y |-> Some(5), z |-> None, distance |-> 7]>>
CalibTraces == {Square, Turned, Wide, Short}

MaxLaps == 2

\* The runs: the sample count is explicit or left to the lap lengths, the
\* laps carry file names or not, heading alignment is on or off.
CalibOptions ==
  {[sampleCount |-> None, named |-> TRUE, alignHeading |-> TRUE],
   [sampleCount |-> Some(4), named |-> FALSE, alignHeading |-> TRUE],
   [sampleCount |-> Some(4), named |-> TRUE, alignHeading |-> FALSE],
   [sampleCount |-> Some(5), named |-> TRUE, alignHeading |-> TRUE],
   [sampleCount |-> Some(5), named |-> FALSE, alignHeading |-> FALSE]}

CalibEntries ==
  {[type |-> t, samples |-> s] : t \in Roles, s \in CalibTraces \ {Short}}
  \cup {[type |-> "left", samples |-> Short]}

\* Named laps get distinct file names.
FileName(k) == IF k = 1 THEN "lap1.csv" ELSE IF k = 2 THEN "lap2.csv" ELSE "lapN.csv"

CalibInit ==
  /\ clamp = Idle /\ guard = Idle /\ pipe = Idle /\ outl = Idle /\ resample = Idle /\ budget = Idle /\ spline = Idle /\ stage = Idle /\ smooth = Idle /\ edges = Idle /\ loader = Idle /\ find = Idle /\ viewer = Idle /\ share = Idle /\ apex = Idle /\ envl = Idle /\ kern = Idle /\ page = Idle
  /\ \E entries \in SeqsUpTo(CalibEntries, MaxLaps), o \in CalibOptions :
       calib = [pc |-> "start",
                classifiedLaps |->
                  [k \in DOMAIN entries |->
                     [type |-> entries[k].type,
                      lap |-> [samples |-> entries[k].samples],
                      filename |-> IF o.named THEN Some(FileName(k)) ELSE None]],
                options |-> [sampleCount |-> o.sampleCount, spacingMeters |-> 5,
                             alignHeading |-> o.alignHeading]]

\* lapLengths, averageLength, gridSize, and the empty groups
CalibResolve ==
  /\ calib.pc = "start"
  /\ LET lapLengths == lapLengthsOf(calib.classifiedLaps)
     IN calib' = [pc |-> "loop",
                  lapLengths |-> lapLengths,
                  gridSize |-> resolvedSampleCount(calib.options.sampleCount, lapLengths,
                                                   calib.options.spacingMeters),
                  grouped |-> [r \in Roles |-> <<>>],
                  referenceHeading |-> None,
                  headingOffsets |-> <<>>,
                  k |-> 0] @@ calib
  /\ UNCHANGED notCalib

IsFirstLapAlways(referenceHeading) == TRUE
\* !referenceHeading
IsFirstLap(referenceHeading) == referenceHeading = None

\* One turn of the loop over classifiedLaps with the lap entry, its resampled
\* grid and the grid pushed onto grouped[type].
LapTurn(entry, grid) ==
  LET headings == computeHeadings(grid)
      deltas == [i \in DOMAIN headings |->
                   wrapAngle(headings[i] - calib.referenceHeading[1][i])]
      normalizedDelta == medianAngle(deltas)
      base == [calib EXCEPT !.pc = "loop", !.k = @ + 1]
      locals(compared, pushed, dl, nd) ==
        [type |-> entry.type, grid |-> grid, headings |-> headings, compared |-> compared,
         deltas |-> dl, normalizedDelta |-> nd, pushed |-> pushed]
  IN IF ~calib.options.alignHeading
     THEN locals(FALSE, grid, <<>>, 0)
          @@ [base EXCEPT !.grouped[entry.type] = Append(@, grid)]
     ELSE IF IsFirstLap(calib.referenceHeading)
     THEN locals(FALSE, grid, <<>>, 0)
          @@ [base EXCEPT !.referenceHeading = Some(headings),
                          !.headingOffsets = Put(@, OffsetKey(entry), 0),
                          !.grouped[entry.type] = Append(@, grid)]
     ELSE LET pushed == IF NeedsRotation(normalizedDelta)
                        THEN rotateGrid(grid, -normalizedDelta) ELSE grid
          IN locals(TRUE, pushed, deltas, normalizedDelta)
             @@ [base EXCEPT !.headingOffsets = Put(@, OffsetKey(entry), normalizedDelta),
                             !.grouped[entry.type] = Append(@, pushed)]

CalibLap ==
  /\ calib.pc = "loop"
  /\ calib.k < Len(calib.classifiedLaps)
  /\ LET entry == calib.classifiedLaps[calib.k + 1]
         r == resampleOnGrid(entry.lap.samples, calib.gridSize)
     IN IF r.threw
        THEN calib' = [calib EXCEPT !.pc = "threw"]
        ELSE calib' = LapTurn(entry, r.grid)
  /\ UNCHANGED notCalib

\* averageGrid of each role, the 'At least one left or right' throw, the result
CalibReturn ==
  /\ calib.pc = "loop"
  /\ calib.k = Len(calib.classifiedLaps)
  /\ LET leftGrid == averageGrid(calib.grouped.left)
         rightGrid == averageGrid(calib.grouped.right)
         centerGrid == averageGrid(calib.grouped.center)
         total == SeqSum(calib.lapLengths)
         count == Len(calib.lapLengths)
     IN IF leftGrid.threw \/ rightGrid.threw
        THEN calib' = [pc |-> "threw", mismatch |-> TRUE] @@ calib
        ELSE IF leftGrid.isNull /\ rightGrid.isNull
        THEN calib' = [pc |-> "threw", mismatch |-> FALSE] @@ calib
        ELSE IF centerGrid.threw
        THEN calib' = [pc |-> "threw", mismatch |-> TRUE] @@ calib
        ELSE calib' =
               [pc |-> "done",
                grids |-> [left |-> leftGrid.grid, right |-> rightGrid.grid,
                           center |-> centerGrid.grid],
                rawSamples |-> calib.grouped,
                metadata |->
                  [trackLength |-> IF count = 0 THEN None ELSE Some(Frac(total, count)),
                   sampleCount |-> calib.gridSize,
                   spacingMeters |-> IF count # 0 /\ calib.gridSize > 1
                                     THEN Frac(total, count * (calib.gridSize - 1))
                                     ELSE Frac(calib.options.spacingMeters, 1),
                   headingOffsets |-> calib.headingOffsets]] @@ calib
  /\ UNCHANGED notCalib

CalibNext == CalibResolve \/ CalibLap \/ CalibReturn

SpecCalib == CalibInit /\ [][CalibNext]_vars

(***************************************************************************)
(* Anchor budget: spline.js wrap, curvatureScore, buildAnchorBudget.       *)
(* Points are sequences <<x, y>> of integers; indices are 0-based as in    *)
(* the source; the index set is kept in insertion order, as a Set is.      *)
(***************************************************************************)
\* points[(index % n + n) % n]
wrap(points, index) == points[(index % Len(points)) + 1]

\* Math.abs(Math.atan2(cross, dot)) of the turn at index
curvatureScore(points, index) ==
  LET prev == wrap(points, index - 1)
      curr == wrap(points, index)
      next == wrap(points, index + 1)
      v1x == curr[1] - prev[1]
      v1y == curr[2] - prev[2]
      v2x == next[1] - curr[1]
      v2y == next[2] - curr[2]
      cross == v1x * v2y - v1y * v2x
      dot == v1x * v2x + v1y * v2y
  IN Abs(Atan2(cross, dot))

\* The place of e in a sequence sorted by key: behind every entry whose key
\* is not larger (Array.prototype.sort is stable).
InsertByKey(sorted, e) ==
  LET later == {p \in DOMAIN sorted : sorted[p].key > e.key}
      pos == IF later = {} THEN Len(sorted) + 1
             ELSE CHOOSE p \in later : \A q \in later : p <= q
  IN SubSeq(sorted, 1, pos - 1) \o <<e>> \o SubSeq(sorted, pos, Len(sorted))

RECURSIVE SortByKeyFrom(_, _, _)
SortByKeyFrom(items, i, sorted) ==
  IF i > Len(items) THEN sorted
  ELSE SortByKeyFrom(items, i + 1, InsertByKey(sorted, items[i]))

\* items.sort((a, b) => a.key - b.key)
SortByKey(items) == SortByKeyFrom(items, 1, <<>>)

SetAddAgain(indexSet, idx) == Append(indexSet, idx)
\* indexSet.add(idx)
SetAdd(indexSet, idx) ==
  IF \E p \in DOMAIN indexSet : indexSet[p] = idx THEN indexSet ELSE Append(indexSet, idx)

RECURSIVE SetAddAll(_, _, _)
\* add idxs[i..] in order while Room holds: limit < 0 is no limit
SetAddAll(indexSet, idxs, limit) ==
  IF idxs = <<>> THEN indexSet
  ELSE SetAddAll(IF limit < 0 \/ Len(indexSet) < limit
                 THEN SetAdd(indexSet, Head(idxs)) ELSE indexSet,
                 Tail(idxs), limit)

\* new Set(biasIndices.map((idx) => ((idx % n) + n) % n))
BiasSet(biasIndices, n) ==
  SetAddAll(<<>>, [k \in DOMAIN biasIndices |-> biasIndices[k] % n], -1)

\* Math.max(1, Math.round(straightSpacing / Math.max(spacingMeters, 1e-3))), lengths in mm
StraightSamples(straightSpacing, spacingMeters) ==
  Max(1, RoundDiv(straightSpacing, Max(spacingMeters, 1)))

RECURSIVE StraightFill(_, _, _, _, _)
\* for (idx = 0; idx < n && indexSet.size < targetCount; idx += straightSamples)
StraightFill(indexSet, idx, n, targetCount, straightSamples) ==
  IF idx < n /\ Len(indexSet) < targetCount
  THEN StraightFill(SetAdd(indexSet, idx), idx + straightSamples, n, targetCount,
                    straightSamples)
  ELSE indexSet

\* curvatureScores.sort((a, b) => b.score - a.score).forEach(add while below target)
CurvatureFill(indexSet, points, targetCount) ==
  LET n == Len(points)
      curvatureScores == [k \in 1..n |-> [idx |-> k - 1,
                                          key |-> -curvatureScore(points, k - 1)]]
      order == SortByKey(curvatureScores)
  IN SetAddAll(indexSet, [k \in 1..n |-> order[k].idx], targetCount)

TrimCountNone(size, targetCount) == 0
\* sortedByCurvature.length - targetCount
TrimCount(size, targetCount) == size - targetCount

\* if (indexSet.size > targetCount) delete the lowest-curvature surplus
TrimSurplus(indexSet, points, targetCount) ==
  IF Len(indexSet) > targetCount
  THEN LET sortedByCurvature ==
             SortByKey([k \in DOMAIN indexSet |->
                          [idx |-> indexSet[k], key |-> curvatureScore(points, indexSet[k])]])
           dropped == {sortedByCurvature[k].idx :
                         k \in 1..Min(Len(indexSet), Max(0, TrimCount(Len(indexSet), targetCount)))}
       IN SelectSeq(indexSet, LAMBDA idx : idx \notin dropped)
  ELSE indexSet

\* if (n <= targetCount || targetCount < 4) return points
ReturnsPoints(n, targetCount) == n <= targetCount \/ targetCount < 4

MinAnchors == 4     \* if (selected.length < 4) return points

\* sortedIndices, selected, and the fallback to points
SelectAnchors(indexSet, points) ==
  LET sortedIndices == SortSeq(indexSet, LAMBDA a, b : a < b)
      selected == [k \in DOMAIN sortedIndices |-> points[sortedIndices[k] + 1]]
  IN IF Len(selected) < MinAnchors THEN points ELSE selected

buildAnchorBudget(points, targetCount, biasIndices, spacingMeters, straightSpacing) ==
  LET n == Len(points)
      biased == BiasSet(biasIndices, n)
      straight == StraightFill(biased, 0, n, targetCount,
                               StraightSamples(straightSpacing, spacingMeters))
      filled == CurvatureFill(straight, points, targetCount)
  IN IF ReturnsPoints(n, targetCount) THEN points
     ELSE SelectAnchors(TrimSurplus(filled, points, targetCount), points)

\* Inputs: point lists over a few places, targets around the list's length,
\* bias lists that are empty, short with a negative index, or longer than the target.
MaxPoints == 6
BudgetPlaces == {<<0, 0>>, <<4, 0>>, <<4, 3>>}
BudgetBias == {<<>>, <<-1, 2>>, <<1, 2, 3, 4, 5, 7>>}
BudgetStraight == {2000, 80000}

BudgetInit ==
  /\ clamp = Idle /\ guard = Idle /\ pipe = Idle /\ outl = Idle /\ resample = Idle /\ calib = Idle /\ spline = Idle /\ stage = Idle /\ smooth = Idle /\ edges = Idle /\ loader = Idle /\ find = Idle /\ viewer = Idle /\ share = Idle /\ apex = Idle /\ envl = Idle /\ kern = Idle /\ page = Idle
  /\ \E points \in SeqsUpTo(BudgetPlaces, MaxPoints), targetCount \in 0..MaxPoints,
        biasIndices \in BudgetBias, straightSpacing \in BudgetStraight :
       budget = [pc |-> "guard", points |-> points, targetCount |-> targetCount,
                 biasIndices |-> biasIndices, spacingMeters |-> MilliPerMeter,
                 straightSpacing |-> straightSpacing]

\* the early return, or the bias set and the straight fill
BudgetSeed ==
  /\ budget.pc = "guard"
  /\ LET n == Len(budget.points)
     IN IF ReturnsPoints(n, budget.targetCount)
        THEN budget' = [pc |-> "done", result |-> budget.points] @@ budget
        ELSE budget' =
               [pc |-> "seeded",
                indexSet |-> StraightFill(BiasSet(budget.biasIndices, n), 0, n,
                                          budget.targetCount,
                                          StraightSamples(budget.straightSpacing,
                                                          budget.spacingMeters))] @@ budget
  /\ UNCHANGED notBudget

BudgetFill ==
  /\ budget.pc = "seeded"
  /\ budget' = [budget EXCEPT !.pc = "filled",
                              !.indexSet = CurvatureFill(@, budget.points, budget.targetCount)]
  /\ UNCHANGED notBudget

BudgetTrim ==
  /\ budget.pc = "filled"
  /\ budget' = [pc |-> "trimmed", filled |-> budget.indexSet,
                indexSet |-> TrimSurplus(budget.indexSet, budget.points, budget.targetCount)]
               @@ budget
  /\ UNCHANGED notBudget

BudgetReturn ==
  /\ budget.pc = "trimmed"
  /\ budget' = [pc |-> "done", result |-> SelectAnchors(budget.indexSet, budget.points)]
               @@ budget
  /\ UNCHANGED notBudget

BudgetNext == BudgetSeed \/ BudgetFill \/ BudgetTrim \/ BudgetReturn

SpecBudget == BudgetInit /\ [][BudgetNext]_vars

(***************************************************************************)
(* geometry.js is not among the sources: computeTangents and               *)
(* computeNormals follow the specification's contract of the Geometry      *)
(* component (unit tangent of the circular central difference, unit        *)
(* normal pointing left).  Vectors are in units of 1e-4; a zero            *)
(* difference, which the contract does not cover, gives the zero vector.   *)
(***************************************************************************)
RECURSIVE SqrtBetween(_, _, _)
\* the largest r in lo..hi with r * r <= v
SqrtBetween(v, lo, hi) ==
  IF lo >= hi THEN lo
  ELSE LET mid == (lo + hi + 1) \div 2
       IN IF mid * mid <= v THEN SqrtBetween(v, mid, hi) ELSE SqrtBetween(v, lo, mid - 1)

\* Math.sqrt(v), rounded down; v < 2^30
Sqrt(v) == SqrtBetween(v, 0, 32767)

computeTangents(points) ==
  LET n == Len(points)
  IN [i \in 1..n |->
        LET prev == points[((i - 2 + n) % n) + 1]
            next == points[(i % n) + 1]
            dx == next[1] - prev[1]
            dy == next[2] - prev[2]
            length == Sqrt(dx * dx + dy * dy)
        IN IF length = 0 THEN <<0, 0>>
           ELSE <<RoundDiv(dx * TrigOne, length), RoundDiv(dy * TrigOne, length)>>]

computeNormals(tangents) ==
  [i \in DOMAIN tangents |-> <<-tangents[i][2], tangents[i][1]>>]

(***************************************************************************)
(* Centre spline: spline.js buildCenterSplineSamples, cloneMissingSide.    *)
(* Lengths are in decimetres.  grids is null or an object whose left,      *)
(* right and center are null or a grid; an option is null when not given.  *)
(***************************************************************************)
DefaultTrackWidth == 120      \* options.defaultTrackWidth || 12

\* grids?.left, grids?.right
SideOf(grids, key) == IF grids = None THEN None ELSE grids[1][key]

\* grids.left ? 'left' : grids.right ? 'right' : null
SourceKey(grids) ==
  IF grids[1].left # None THEN Some("left")
  ELSE IF grids[1].right # None THEN Some("right")
  ELSE None

CloneDirectionLeftward(sourceKey) == 1
\* sourceKey === 'left' ? -1 : 1
CloneDirection(sourceKey) == IF sourceKey = "left" THEN -1 ELSE 1

\* The clone that cloneMissingSide builds from the source grid.
CloneOf(source, widthMeters, sourceKey) ==
  LET points == [i \in DOMAIN source |-> <<source[i].x, source[i].y>>]
      normals == computeNormals(computeTangents(points))
      offset == widthMeters
      direction == CloneDirection(sourceKey)
  IN [i \in DOMAIN source |->
        [progress |-> source[i].progress,
         x |-> source[i].x + RoundDiv(normals[i][1] * offset * direction, TrigOne),
         y |-> source[i].y + RoundDiv(normals[i][2] * offset * direction, TrigOne)]]

\* cloneMissingSide(grids, widthMeters): grids with the clone stored, or a throw
cloneMissingSide(grids, widthMeters) ==
  IF grids = None \/ SourceKey(grids) = None
  THEN [threw |-> TRUE, grids |-> grids]
  ELSE LET sourceKey == SourceKey(grids)[1]
           clone == CloneOf(grids[1][sourceKey][1], widthMeters, sourceKey)
       IN [threw |-> FALSE,
           grids |-> Some(IF sourceKey = "left"
                          THEN [grids[1] EXCEPT !.right = Some(clone)]
                          ELSE [grids[1] EXCEPT !.left = Some(clone)])]

\* options.allowSingleSide ?? false
AllowSingleSide(options) ==
  IF options.allowSingleSide = None THEN FALSE ELSE options.allowSingleSide[1]

\* options.defaultTrackWidth || 12
TrackWidth(options) ==
  IF options.defaultTrackWidth = None \/ options.defaultTrackWidth = Some(0)
  THEN DefaultTrackWidth ELSE options.defaultTrackWidth[1]

\* grids.map(({ x, y }) => ({ x, y }))
PlainPoints(g) == [i \in DOMAIN g |-> [x |-> g[i].x, y |-> g[i].y]]

\* centerCandidates: the center grid, or the midpoints of left and right
CenterCandidates(grids, leftPoints, rightPoints) ==
  IF grids.center # None THEN PlainPoints(grids.center[1])
  ELSE [idx \in DOMAIN leftPoints |->
          LET point == leftPoints[idx]
              outer == IF idx <= Len(rightPoints) THEN rightPoints[idx] ELSE point
          IN [x |-> RoundDiv(point.x + outer.x, 2), y |-> RoundDiv(point.y + outer.y, 2)]]

\* Averaged grids as the resampler leaves them.
SplineGrids ==
  {resampleOnGrid(Square, 5).grid, resampleOnGrid(Wide, 4).grid,
   resampleOnGrid(Turned, 3).grid}
SplineSides == {None} \cup {Some(g) : g \in SplineGrids}
SplineWidths == {None, Some(0), Some(80)}
MaxSampleCount == 7
SplineCounts == {0, 1, MaxSampleCount}

SplineInit ==
  /\ clamp = Idle /\ guard = Idle /\ pipe = Idle /\ outl = Idle /\ resample = Idle /\ calib = Idle /\ budget = Idle /\ stage = Idle /\ smooth = Idle /\ edges = Idle /\ loader = Idle /\ find = Idle /\ viewer = Idle /\ share = Idle /\ apex = Idle /\ envl = Idle /\ kern = Idle /\ page = Idle
  /\ \E grids \in {None} \cup {Some([left |-> l, right |-> r, center |-> c]) :
                                l \in SplineSides, r \in SplineSides,
                                c \in {None, Some(resampleOnGrid(Square, 5).grid)}},
        allow \in {None, Some(TRUE), Some(FALSE)}, width \in SplineWidths :
       \E sampleCount \in SplineCounts, pointTarget \in {None, Some(MinAnchors)} :
         spline = [pc |-> "sides", grids |-> grids, given |-> grids,
                   sampleCount |-> sampleCount,
                   options |-> [allowSingleSide |-> allow, defaultTrackWidth |-> width,
                                pointTarget |-> pointTarget]]

\* if (!grids?.left || !grids?.right) { throw, or cloneMissingSide }
SplineCloneSide ==
  /\ spline.pc = "sides"
  /\ IF SideOf(spline.grids, "left") = None \/ SideOf(spline.grids, "right") = None
     THEN IF ~AllowSingleSide(spline.options)
          THEN spline' = [spline EXCEPT !.pc = "threw"]
          ELSE LET c == cloneMissingSide(spline.grids, TrackWidth(spline.options))
               IN IF c.threw THEN spline' = [spline EXCEPT !.pc = "threw"]
                  ELSE spline' = [spline EXCEPT !.pc = "points", !.grids = c.grids]
     ELSE spline' = [spline EXCEPT !.pc = "points"]
  /\ UNCHANGED notSpline

\* leftPoints, rightPoints, centerCandidates
SplinePoints ==
  /\ spline.pc = "points"
  /\ LET leftPoints == PlainPoints(spline.grids[1].left[1])
         rightPoints == PlainPoints(spline.grids[1].right[1])
     IN spline' = [pc |-> "candidates", leftPoints |-> leftPoints,
                   rightPoints |-> rightPoints,
                   centerCandidates |-> CenterCandidates(spline.grids[1], leftPoints,
                                                         rightPoints)] @@ spline
  /\ UNCHANGED notSpline


(***************************************************************************)
(* Outlier detection on its own: spline.js detectWidthOutliers, one action *)
(* per iteration of its loop.  The two arrays are parallel (one entry per  *)
(* centreline sample); an option is null when the caller leaves it out.    *)
(***************************************************************************)
MaxWidths == 3

OutlValues == {-1 * MilliPerMeter, 5 * MilliPerMeter, 11 * MilliPerMeter}
OutlArrays == SeqsUpTo(OutlValues, MaxWidths)
OutlOptions ==
  {[maxWidthChange |-> c, minWidth |-> b[1], maxWidth |-> b[2]] :
     c \in {None, Some(0), Some(MilliPerMeter)},
     b \in {<<None, None>>, <<Some(12 * MilliPerMeter), Some(22 * MilliPerMeter)>>}}

\* { maxWidthChange = 5, minWidth = 3, maxWidth = 20 } = {}
OptionOr(option, default) == IF option = None THEN default ELSE option[1]

OutlInit ==
  /\ clamp = Idle /\ guard = Idle /\ pipe = Idle /\ resample = Idle /\ calib = Idle /\ budget = Idle /\ spline = Idle /\ stage = Idle /\ smooth = Idle /\ edges = Idle /\ loader = Idle /\ find = Idle /\ viewer = Idle /\ share = Idle /\ apex = Idle /\ envl = Idle /\ kern = Idle /\ page = Idle
  /\ \E halfWidthLeft \in OutlArrays, halfWidthRight \in OutlArrays, options \in OutlOptions :
       /\ Len(halfWidthLeft) = Len(halfWidthRight)
       /\ outl = [pc |-> "loop", halfWidthLeft |-> halfWidthLeft,
                  halfWidthRight |-> halfWidthRight,
                  maxWidthChange |-> OptionOr(options.maxWidthChange, DefaultMaxWidthChange),
                  minWidth |-> OptionOr(options.minWidth, DefaultMinWidth),
                  maxWidth |-> OptionOr(options.maxWidth, DefaultMaxWidth),
                  i |-> 1, outliers |-> <<>>]

\* for (let i = 0; i < n; i++) { ... }
OutlSample ==
  /\ outl.pc = "loop"
  /\ outl.i <= Len(outl.halfWidthLeft)
  /\ outl' = [outl EXCEPT
                !.outliers = @ \o OutliersAt(outl.halfWidthLeft, outl.halfWidthRight, outl.i,
                                             outl.maxWidthChange, outl.minWidth,
                                             outl.maxWidth),
                !.i = @ + 1]
  /\ UNCHANGED notOutl

\* return { outliers, stats }
OutlReturn ==
  /\ outl.pc = "loop"
  /\ outl.i > Len(outl.halfWidthLeft)
  /\ outl' = [pc |-> "done", outliers |-> outl.outliers,
              stats |-> WidthStats(outl.halfWidthLeft, outl.halfWidthRight),
              halfWidthLeft |-> outl.halfWidthLeft,
              halfWidthRight |-> outl.halfWidthRight,
              maxWidthChange |-> outl.maxWidthChange,
              minWidth |-> outl.minWidth, maxWidth |-> outl.maxWidth]
  /\ UNCHANGED notOutl

OutlNext == OutlSample \/ OutlReturn

SpecOutl == OutlInit /\ [][OutlNext]_vars

(***************************************************************************)
(* The width-stage operations with the arrays they are handed and the      *)
(* arrays they create: spline.js buildConstantWidthEnvelope,               *)
(* detectWidthOutliers, clampWidths, savitzkyGolayWidthSmooth,             *)
(* clampWidthDeltas, constraints.js enforceWidthConstraints.  heap holds   *)
(* every Float64Array that exists, an array is named by its place in heap. *)
(***************************************************************************)
MaxStages == 3

\* new Float64Array(n)
Float64ArrayOfLength(heap, n) ==
  [heap |-> Append(heap, [i \in 1..n |-> 0]), ref |-> Len(heap) + 1]

Float64ArrayShared(heap, values) == [heap |-> heap, ref |-> values]
\* new Float64Array(values): a copy of the array values
Float64ArrayFrom(heap, values) ==
  [heap |-> Append(heap, heap[values]), ref |-> Len(heap) + 1]

\* result[i] = ... for every i the stage writes
Fill(heap, ref, values) == [heap EXCEPT ![ref] = values]

\* The stage's two result arrays written, and returned as its half-widths.
Returned(left, right, out) ==
  [heap |-> Fill(Fill(right.heap, left.ref, out.halfWidthLeft), right.ref, out.halfWidthRight),
   halfWidthLeft |-> left.ref, halfWidthRight |-> right.ref]

\* resultLeft, resultRight = new Float64Array(n) (spline.js:452-453; 701-702)
ReturnedInNew(heap, n, out) ==
  LET left == Float64ArrayOfLength(heap, n)
  IN Returned(left, Float64ArrayOfLength(left.heap, n), out)

\* result = new Float64Array(values) (spline.js:647; constraints.js:37-38)
ReturnedInCopies(heap, halfWidthLeft, halfWidthRight, out) ==
  LET left == Float64ArrayFrom(heap, halfWidthLeft)
  IN Returned(left, Float64ArrayFrom(left.heap, halfWidthRight), out)

StageCount == SGWindow \div 2     \* the shortest array the window never leaves
StageLeft == {<<MilliPerMeter, PipeSpike, MilliPerMeter, MilliPerMeter>>,
              <<PipeOther, PipeOther, PipeOther, PipeOther>>}
StageRight == {<<0, 0, 9 * MilliPerMeter, 0>>, <<PipeOther, PipeOther, PipeOther, PipeOther>>}

StageInit ==
  /\ clamp = Idle /\ guard = Idle /\ pipe = Idle /\ outl = Idle /\ resample = Idle /\ calib = Idle /\ budget = Idle /\ spline = Idle /\ smooth = Idle /\ edges = Idle /\ loader = Idle /\ find = Idle /\ viewer = Idle /\ share = Idle /\ apex = Idle /\ envl = Idle /\ kern = Idle /\ page = Idle
  /\ \E left \in StageLeft, right \in StageRight, angle \in {0, 100},
        spacing \in PipeSpacing, projection \in PipeProjections :
       stage = [pc |-> "widths", heap |-> <<left, right>>,
                halfWidthLeft |-> 1, halfWidthRight |-> 2,
                given |-> <<1, 2>>, last |-> "none", count |-> 0,
                centerline |-> [i \in 1..StageCount |-> <<0, 0>>],
                normals |-> [i \in 1..StageCount |-> <<0, 1>>],
                signedAngles |-> [i \in 1..StageCount |-> angle],
                rawSamples |-> PipeRawSamples(StageCount, projection),
                spacingMeters |-> spacing]

\* The frame after a stage that returned the arrays of r.
AfterStage(name, r) ==
  [stage EXCEPT !.heap = r.heap, !.halfWidthLeft = r.halfWidthLeft,
                !.halfWidthRight = r.halfWidthRight,
                !.given = <<stage.halfWidthLeft, stage.halfWidthRight>>,
                !.last = name, !.count = @ + 1]

StageLeftValues == stage.heap[stage.halfWidthLeft]
StageRightValues == stage.heap[stage.halfWidthRight]
StageReady == stage.pc = "widths" /\ stage.count < MaxStages

StageEnvelope ==
  /\ StageReady
  /\ LET out == buildConstantWidthEnvelope(StageLeftValues, StageRightValues,
                  stage.signedAngles, computeTargetWidth(StageLeftValues, StageRightValues))
     IN stage' = AfterStage("buildConstantWidthEnvelope",
                            ReturnedInNew(stage.heap, Len(StageLeftValues), out))
  /\ UNCHANGED notStage

\* detectWidthOutliers creates no array and returns none
StageOutliers ==
  /\ StageReady
  /\ stage' = [stage EXCEPT !.given = <<stage.halfWidthLeft, stage.halfWidthRight>>,
                            !.last = "detectWidthOutliers", !.count = @ + 1]
  /\ UNCHANGED notStage

StageClampWidths ==
  /\ StageReady
  /\ LET out == clampWidths(StageLeftValues, StageRightValues, MinHalfWidth, MaxHalfWidth)
     IN stage' = AfterStage("clampWidths",
                            ReturnedInNew(stage.heap, Len(StageLeftValues), out))
  /\ UNCHANGED notStage

\* savitzkyGolaySmooth: result = new Float64Array(n), once per side
StageSmooth ==
  /\ StageReady
  /\ LET out == savitzkyGolayWidthSmooth(StageLeftValues, StageRightValues, SGWindow, SGOrder)
         left == Float64ArrayOfLength(stage.heap, Len(StageLeftValues))
         right == Float64ArrayOfLength(left.heap, Len(StageRightValues))
     IN stage' = AfterStage("savitzkyGolayWidthSmooth", Returned(left, right, out))
  /\ UNCHANGED notStage

StageClampDeltas ==
  /\ StageReady
  /\ LET out == clampWidthDeltas(StageLeftValues, StageRightValues, stage.spacingMeters,
                                 MaxDeltaPer10m, DefaultSectorLength)
     IN stage' = AfterStage("clampWidthDeltas",
                            ReturnedInCopies(stage.heap, stage.halfWidthLeft,
                                             stage.halfWidthRight, out))
  /\ UNCHANGED notStage

StageEnforce ==
  /\ StageReady
  /\ LET out == enforceWidthConstraints(stage.centerline, stage.normals, stage.rawSamples,
                                        StageLeftValues, StageRightValues, UnitScale)
     IN stage' = AfterStage("enforceWidthConstraints",
                            ReturnedInCopies(stage.heap, stage.halfWidthLeft,
                                             stage.halfWidthRight, out))
  /\ UNCHANGED notStage

StageNext ==
  \/ StageEnvelope \/ StageOutliers \/ StageClampWidths
  \/ StageSmooth \/ StageClampDeltas \/ StageEnforce

SpecStage == StageInit /\ [][StageNext]_vars

(***************************************************************************)
(* Smoothing of one array: smoothing.js smoothArray and                    *)
(* savitzkyGolaySmooth, with every window size and both wrap modes.  A     *)
(* number that may be NaN is None (NaN) or Some(v).                        *)
(***************************************************************************)
MaxSmooth == 3

\* values[index], 0-based: undefined outside the array
ValueAt(values, index) ==
  IF index >= 0 /\ index < Len(values) THEN Some(values[index + 1]) ELSE None

\* windowSize after 'if (windowSize % 2 === 0) windowSize += 1'
OddWindow(windowSize) == IF windowSize % 2 = 0 THEN windowSize + 1 ELSE windowSize

\* The indices the window of sample i (0-based) reads, in order: wrapped by
\* (index + n) % n when circular, else those inside the array; each with the
\* place k (1-based) it has in the window.
WindowReads(i, n, window, circular) ==
  LET half == window \div 2
      index(k) == i + (k - 1) - half
      all == [k \in 1..window |->
                [k |-> k, index |-> IF circular THEN JsRem(index(k) + n, n) ELSE index(k)]]
  IN IF circular THEN all
     ELSE SelectSeq(all, LAMBDA r : r.index >= 0 /\ r.index < n)

\* sum / weightSum over the reads, NaN once a read is undefined
WeightedMean(values, reads, weights, i) ==
  LET weightSum == SeqSum([r \in DOMAIN reads |-> weights[reads[r].k]])
      sum == SeqSum([r \in DOMAIN reads |->
                       weights[reads[r].k] * ValueAt(values, reads[r].index)[1]])
  IN IF \E r \in DOMAIN reads : ValueAt(values, reads[r].index) = None THEN None
     ELSE IF weightSum # 0 THEN Some(RoundDiv(sum, weightSum))
     ELSE Some(values[i + 1])

\* smoothed[i] of smoothArray: count > 0 ? sum / count : values[i]
SmoothArrayAt(values, i, window, circular) ==
  WeightedMean(values, WindowReads(i, Len(values), window, circular),
               [k \in 1..window |-> 1], i)

\* result[i] of savitzkyGolaySmooth
SavitzkyGolayAt(values, i, window, kernel, circular) ==
  WeightedMean(values, WindowReads(i, Len(values), window, circular), kernel.weights, i)

SmoothValues == {-2 * MilliPerMeter, 5 * MilliPerMeter}
SmoothWindows == 0..SGWindow
SmoothCalls ==
  {[fn |-> "smoothArray", order |-> 0]}
    \cup {[fn |-> "savitzkyGolaySmooth", order |-> o] : o \in 1..SGOrder}

SmoothInit ==
  /\ clamp = Idle /\ guard = Idle /\ pipe = Idle /\ outl = Idle /\ resample = Idle /\ calib = Idle /\ budget = Idle /\ spline = Idle /\ stage = Idle /\ edges = Idle /\ loader = Idle /\ find = Idle /\ viewer = Idle /\ share = Idle /\ apex = Idle /\ envl = Idle /\ kern = Idle /\ page = Idle
  /\ \E values \in SeqsUpTo(SmoothValues, MaxSmooth), windowSize \in SmoothWindows,
        circular \in BOOLEAN, call \in SmoothCalls :
       smooth = [pc |-> "check", fn |-> call.fn, order |-> call.order, values |-> values,
                 windowSize |-> windowSize, circular |-> circular]

\* The argument checks, the odd window and (Savitzky-Golay) the kernel.
SmoothCheck ==
  /\ smooth.pc = "check"
  /\ LET window == OddWindow(smooth.windowSize)
         least == IF smooth.fn = "smoothArray" THEN 1 ELSE 3
         kernel == IF smooth.fn = "smoothArray" THEN [singular |-> FALSE]
                   ELSE sgKernelCache[window][smooth.order]
     IN IF smooth.windowSize < least \/ kernel.singular
        THEN smooth' = [smooth EXCEPT !.pc = "threw"]
        ELSE smooth' = [pc |-> "loop", window |-> window, kernel |-> kernel,
                        i |-> 0, result |-> <<>>] @@ smooth
  /\ UNCHANGED notSmooth

\* for (let i = 0; i < n; i++) { ... }
SmoothSample ==
  /\ smooth.pc = "loop"
  /\ smooth.i < Len(smooth.values)
  /\ smooth' = [smooth EXCEPT
       !.result = Append(@, IF smooth.fn = "smoothArray"
                            THEN SmoothArrayAt(smooth.values, smooth.i, smooth.window,
                                               smooth.circular)
                            ELSE SavitzkyGolayAt(smooth.values, smooth.i, smooth.window,
                                                 smooth.kernel, smooth.circular)),
       !.i = @ + 1]
  /\ UNCHANGED notSmooth

SmoothReturn ==
  /\ smooth.pc = "loop"
  /\ smooth.i >= Len(smooth.values)
  /\ smooth' = [smooth EXCEPT !.pc = "done"]
  /\ UNCHANGED notSmooth

SmoothNext == SmoothCheck \/ SmoothSample \/ SmoothReturn

SpecSmooth == SmoothInit /\ [][SmoothNext]_vars

(***************************************************************************)
(* Inside-edge classification: spline.js determineInsideEdges and its      *)
(* pickCandidate.  Angles are in units of 1e-4 rad, lengths in             *)
(* millimetres; a side is "left" or "right".                               *)
(***************************************************************************)
AngleEps == 1                     \* 1e-4
DefaultHysteresis == 8 * MilliPerMeter

\* Math.sign
Sign(a) == IF a > 0 THEN 1 ELSE IF a < 0 THEN -1 ELSE 0

\* Math.max(1, Math.round(hysteresisMeters / Math.max(spacingMeters, 1e-3)))
MinSamplesOf(hysteresisMeters, spacingMeters) ==
  Max(1, RoundDiv(hysteresisMeters, Max(spacingMeters, 1)))

\* leftScore >= rightScore ? 'left' : 'right'
LargerScore(leftScore, rightScore) ==
  IF leftScore >= rightScore THEN "left" ELSE "right"

\* pickCandidate(index), 0-based; leftAngles and rightAngles are null (None)
\* or an array
pickCandidate(centerAngles, leftAngles, rightAngles, index, lastSign, current) ==
  LET angleSign == IF Abs(centerAngles[index + 1]) > AngleEps
                   THEN Sign(centerAngles[index + 1]) ELSE lastSign
      leftAngle == IF leftAngles # None /\ index < Len(leftAngles[1])
                   THEN Some(leftAngles[1][index + 1]) ELSE None
      rightAngle == IF rightAngles # None /\ index < Len(rightAngles[1])
                    THEN Some(rightAngles[1][index + 1]) ELSE None
      leftScore == IF leftAngle # None THEN Abs(leftAngle[1]) ELSE -1
      rightScore == IF rightAngle # None THEN Abs(rightAngle[1]) ELSE -1
      leftMatch == leftAngle # None /\ Sign(leftAngle[1]) = angleSign /\ leftScore > AngleEps
      rightMatch == rightAngle # None /\ Sign(rightAngle[1]) = angleSign
                    /\ rightScore > AngleEps
  IN IF leftMatch /\ ~rightMatch THEN "left"
     ELSE IF rightMatch /\ ~leftMatch THEN "right"
     ELSE IF leftMatch /\ rightMatch THEN LargerScore(leftScore, rightScore)
     ELSE IF leftScore >= 0 /\ rightScore >= 0
          THEN LargerScore(leftScore, rightScore)
     ELSE IF leftScore >= 0 THEN "left"
     ELSE IF rightScore >= 0 THEN "right"
     ELSE current

CommitsAtOnce(pendingCount, minSamples) == pendingCount >= 1
\* pendingCount >= minSamples
Commits(pendingCount, minSamples) == pendingCount >= minSamples

FlipCountFromStart(flipCount, commit, firstChange) ==
  IF commit \/ firstChange THEN flipCount + 1 ELSE flipCount
\* flipCount += 1, in the branch that commits a pending switch only
FlipCount(flipCount, commit, firstChange) == IF commit THEN flipCount + 1 ELSE flipCount

\* One turn of the loop over the samples: s holds current, lastSign, pending,
\* pendingCount, flipCount, insideSides, insidePoints and, for each sample,
\* the candidate picked at it.
InsideStep(s, i) ==
  LET lastSign == IF Abs(s.centerAngles[i + 1]) > AngleEps
                  THEN (IF Sign(s.centerAngles[i + 1]) # 0
                        THEN Sign(s.centerAngles[i + 1]) ELSE s.lastSign)
                  ELSE s.lastSign
      candidate == pickCandidate(s.centerAngles, s.leftAngles, s.rightAngles, i,
                                 lastSign, s.current)
      first == i = 0                     \* insideSides[i - 1] == null
      differs == ~first /\ candidate # s.current
      pendingCount == IF s.pending = Some(candidate) THEN s.pendingCount + 1 ELSE 1
      commit == differs /\ Commits(pendingCount, s.minSamples)
      current == IF first \/ commit THEN candidate ELSE s.current
      sourcePoints == IF current = "left" THEN s.leftPoints ELSE s.rightPoints
      safeIndex == ((i % Len(sourcePoints)) + Len(sourcePoints)) % Len(sourcePoints)
  IN [s EXCEPT !.lastSign = lastSign,
               !.current = current,
               !.pending = IF differs /\ ~commit THEN Some(candidate)
                           ELSE IF first THEN s.pending ELSE None,
               !.pendingCount = IF differs /\ ~commit THEN pendingCount
                                ELSE IF first THEN s.pendingCount ELSE 0,
               !.flipCount = FlipCount(@, commit, first /\ candidate # s.current),
               !.insideSides = Append(@, current),
               !.insidePoints = Append(@, sourcePoints[safeIndex + 1]),
               !.candidates = Append(@, candidate)]

\* The locals of determineInsideEdges before its loop.
InsideStart(centerAngles, leftAngles, rightAngles, spacingMeters, hysteresisMeters, leftPoints, rightPoints) ==
  [centerAngles |-> centerAngles, leftAngles |-> leftAngles, rightAngles |-> rightAngles,
   leftPoints |-> leftPoints, rightPoints |-> rightPoints,
   minSamples |-> MinSamplesOf(hysteresisMeters, spacingMeters),
   current |-> "left", lastSign |-> 1, pending |-> None, pendingCount |-> 0,
   flipCount |-> 0, insideSides |-> <<>>, insidePoints |-> <<>>, candidates |-> <<>>]

MaxInside == 5

\* The kinds of sample: the turning angles of center, left and right there.
InsideKinds ==
  {<<0, 0, 0>>, <<200, 300, 200>>, <<-200, 300, -300>>, <<0, -300, 300>>, <<200, 300, 300>>}

\* [hysteresisMeters, spacingMeters]: minSamples 2, 1 and 3
InsideOptions ==
  {<<2 * MilliPerMeter, MilliPerMeter>>, <<2 * MilliPerMeter, 4 * MilliPerMeter>>,
   <<DefaultHysteresis, 3 * MilliPerMeter>>}

InsideInit ==
  /\ clamp = Idle /\ guard = Idle /\ pipe = Idle /\ outl = Idle /\ resample = Idle /\ calib = Idle /\ budget = Idle /\ spline = Idle /\ stage = Idle /\ smooth = Idle /\ loader = Idle /\ find = Idle /\ viewer = Idle /\ share = Idle /\ apex = Idle /\ envl = Idle /\ kern = Idle /\ page = Idle
  /\ \E kinds \in SeqsUpTo(InsideKinds, MaxInside), o \in InsideOptions :
       edges = [pc |-> "loop", i |-> 0] @@
                InsideStart([k \in DOMAIN kinds |-> kinds[k][1]],
                            Some([k \in DOMAIN kinds |-> kinds[k][2]]),
                            Some([k \in DOMAIN kinds |-> kinds[k][3]]),
                            o[2], o[1],
                            [k \in DOMAIN kinds |-> [x |-> k - 1, y |-> 1]],
                            [k \in DOMAIN kinds |-> [x |-> k - 1, y |-> -1]])

\* for (let i = 0; i < n; i++) { ... }
InsideSample ==
  /\ edges.pc = "loop"
  /\ edges.i < Len(edges.centerAngles)
  /\ edges' = [InsideStep(edges, edges.i) EXCEPT !.i = @ + 1]
  /\ UNCHANGED notInside

\* return { insideSides, insidePoints, flipCount }
InsideReturn ==
  /\ edges.pc = "loop"
  /\ edges.i >= Len(edges.centerAngles)
  /\ edges' = [edges EXCEPT !.pc = "done"]
  /\ UNCHANGED notInside

InsideNext == InsideSample \/ InsideReturn

SpecInside == InsideInit /\ [][InsideNext]_vars

(***************************************************************************)
(* The rest of buildCenterSplineSamples: inside edges, apexes, the three   *)
(* anchor budgets and the three sampled curves (spline.js 137-201,         *)
(* sampleClosedBezier, evaluateBezier, detectApexIndices).                 *)
(* computeSignedAngles is in geometry.js, which is not among the sources:  *)
(* it follows the specification's contract (the signed turning angle at    *)
(* every sample of the circular array, positive to the left).              *)
(***************************************************************************)
computeSignedAngles(points) ==
  [i \in DOMAIN points |->
     LET prev == wrap(points, i - 2)
         curr == wrap(points, i - 1)
         next == wrap(points, i)
         v1x == curr[1] - prev[1]
         v1y == curr[2] - prev[2]
         v2x == next[1] - curr[1]
         v2y == next[2] - curr[2]
     IN Atan2(v1x * v2y - v1y * v2x, v1x * v2x + v1y * v2y)]

\* points.map((p) => [p.x, p.y])
Pairs(points) == [i \in DOMAIN points |-> <<points[i].x, points[i].y>>]

RECURSIVE InsideLoop(_, _)
InsideLoop(s, i) == IF i >= Len(s.centerAngles) THEN s ELSE InsideLoop(InsideStep(s, i), i + 1)

determineInsideEdges(centerPairs, leftPairs, rightPairs, spacingMeters, hysteresisMeters, leftPoints, rightPoints) ==
  LET s == InsideLoop(InsideStart(computeSignedAngles(centerPairs),
                                  Some(computeSignedAngles(leftPairs)),
                                  Some(computeSignedAngles(rightPairs)),
                                  spacingMeters, hysteresisMeters, leftPoints, rightPoints), 0)
  IN [insideSides |-> s.insideSides, insidePoints |-> s.insidePoints,
      flipCount |-> s.flipCount]

\* One turn of 'for (const idx of peaks)': merged afterwards
MergeStep(merged, idx, mc) ==
  LET last == merged[Len(merged)]
      delta == Min(Abs(idx - last), mc.n - Abs(idx - last))
  IN IF merged = <<>> THEN <<idx>>
     ELSE IF delta <= mc.mergeSamples
     THEN (IF mc.curvature[idx + 1] > mc.curvature[last + 1]
           THEN [merged EXCEPT ![Len(merged)] = idx] ELSE merged)
     ELSE Append(merged, idx)

RECURSIVE MergePeaks(_, _, _, _)
\* for (const idx of peaks) { ... }: peaks[k..] merged into merged
MergePeaks(peaks, k, merged, mc) ==
  IF k > Len(peaks) THEN merged
  ELSE MergePeaks(peaks, k + 1, MergeStep(merged, peaks[k], mc), mc)

ApexMergeDistance == 5 * MilliPerMeter

\* curvature[i] >= prev && curvature[i] >= next && curvature[i] > 1e-4 (i 0-based)
IsPeak(curvature, i) ==
  LET n == Len(curvature)
  IN /\ curvature[i + 1] >= curvature[((i - 1 + n) % n) + 1]
     /\ curvature[i + 1] >= curvature[((i + 1) % n) + 1]
     /\ curvature[i + 1] > AngleEps

\* peaks.sort((a, b) => curvature[b] - curvature[a])
SortPeaks(peaks, curvature) ==
  LET sorted == SortByKey([k \in DOMAIN peaks |->
                             [idx |-> peaks[k], key |-> -curvature[peaks[k] + 1]]])
  IN [k \in DOMAIN sorted |-> sorted[k].idx]

\* Math.max(1, Math.round(5 / Math.max(spacingMeters, 1e-3)))
MergeSamples(spacingMeters) == Max(1, RoundDiv(ApexMergeDistance, Max(spacingMeters, 1)))

detectApexIndices(points, spacingMeters) ==
  LET angles == computeSignedAngles(Pairs(points))
      curvature == [i \in DOMAIN angles |-> Abs(angles[i])]
      n == Len(curvature)
      found == SelectSeq([i \in 1..n |-> i - 1], LAMBDA i : IsPeak(curvature, i))
  IN MergePeaks(SortPeaks(found, curvature), 1, <<>>,
                [n |-> n, mergeSamples |-> MergeSamples(spacingMeters),
                 curvature |-> curvature])

DefaultTension == Frac(1, 2)       \* DEFAULT_TENSION = 0.5
DefaultPointTarget == 40           \* DEFAULT_POINT_TARGET
DefaultStraightSpacing == 80 * MilliPerMeter

\* evaluateBezier for t = a/b; c1 and c2 are carried as scale times the
\* control point, so that thirds of tangents stay whole numbers
evaluateBezier(p0, c1, c2, p3, t, scale) ==
  LET a == t.n
      it == t.d - t.n
      den == scale * t.d * t.d * t.d
      at(c) == RoundDiv(it * it * it * p0[c] * scale + 3 * it * it * a * c1[c]
                        + 3 * it * a * a * c2[c] + a * a * a * p3[c] * scale, den)
  IN [x |-> at(1), y |-> at(2)]

\* position = (i / sampleCount) * n
BezierPosition(i, sampleCount, n) == Frac(i * n, sampleCount)

FloorOfUp(position) == CeilDiv(position.n, position.d)
\* Math.floor(position)
FloorOf(position) == position.n \div position.d

\* for (let i = 0; i < sampleCount; i++)
SampleIndices(sampleCount) == 0..(sampleCount - 1)

\* sample i of sampleClosedBezier
BezierSample(points, i, sampleCount, tension) ==
  LET n == Len(points)
      position == BezierPosition(i, sampleCount, n)
      segIndex == FloorOf(position) % n
      localT == Frac(position.n - FloorOf(position) * position.d, position.d)
      scale == 3 * tension.d
      \* scale * tangents[idx] / 3
      third(idx) == LET prev == wrap(points, idx - 1)
                        next == wrap(points, idx + 1)
                    IN <<(next[1] - prev[1]) * tension.n, (next[2] - prev[2]) * tension.n>>
      p0 == points[segIndex + 1]
      p3 == points[((segIndex + 1) % n) + 1]
      outTangent == third(segIndex)
      inTangent == third((segIndex + 1) % n)
      c1 == <<scale * p0[1] + outTangent[1], scale * p0[2] + outTangent[2]>>
      c2 == <<scale * p3[1] - inTangent[1], scale * p3[2] - inTangent[2]>>
  IN evaluateBezier(p0, c1, c2, p3, localT, scale)

sampleClosedBezier(points, sampleCount, tension) ==
  IF Len(points) < 3 THEN [threw |-> TRUE, samples |-> <<>>]
  ELSE [threw |-> FALSE,
        samples |-> LET indices == SampleIndices(sampleCount)
                    IN [k \in 1..Cardinality(indices) |->
                          BezierSample(points, k - 1, sampleCount, tension)]]

\* insideInfo and apexIndices
SplineInsideEdges ==
  /\ spline.pc = "candidates"
  /\ LET insideInfo == determineInsideEdges(Pairs(spline.centerCandidates),
                         Pairs(spline.leftPoints), Pairs(spline.rightPoints),
                         MilliPerMeter, DefaultHysteresis,
                         spline.leftPoints, spline.rightPoints)
     IN spline' = [pc |-> "inside", insideInfo |-> insideInfo,
                   apexIndices |-> detectApexIndices(insideInfo.insidePoints, MilliPerMeter)]
                  @@ spline
  /\ UNCHANGED notSpline

\* leftControl, rightControl, centerControls
SplineAnchors ==
  /\ spline.pc = "inside"
  /\ LET pointTarget == OptionOr(spline.options.pointTarget, DefaultPointTarget)
         control(points) == buildAnchorBudget(Pairs(points), pointTarget, spline.apexIndices,
                                              MilliPerMeter, DefaultStraightSpacing)
     IN spline' = [pc |-> "anchors", leftControl |-> control(spline.leftPoints),
                   rightControl |-> control(spline.rightPoints),
                   centerControls |-> control(spline.centerCandidates)] @@ spline
  /\ UNCHANGED notSpline

\* the three sampled curves and the return
SplineSamples ==
  /\ spline.pc = "anchors"
  /\ LET left == sampleClosedBezier(spline.leftControl, spline.sampleCount, DefaultTension)
         right == sampleClosedBezier(spline.rightControl, spline.sampleCount, DefaultTension)
         center == sampleClosedBezier(spline.centerControls, spline.sampleCount,
                                      DefaultTension)
     IN IF left.threw \/ right.threw \/ center.threw
        THEN spline' = [spline EXCEPT !.pc = "threw"]
        ELSE spline' = [pc |-> "done", leftSamples |-> left.samples,
                        rightSamples |-> right.samples,
                        centerline |-> Pairs(center.samples),
                        insideSamples |-> spline.insideInfo.insidePoints,
                        metadata |-> [leftControlCount |-> Len(spline.leftControl),
                                      rightControlCount |-> Len(spline.rightControl),
                                      centerControlCount |-> Len(spline.centerControls),
                                      insideFlipCount |-> spline.insideInfo.flipCount,
                                      apexCount |-> Len(spline.apexIndices)]] @@ spline
  /\ UNCHANGED notSpline

SplineNext ==
  \/ SplineCloneSide \/ SplinePoints \/ SplineInsideEdges \/ SplineAnchors \/ SplineSamples

SpecSpline == SplineInit /\ [][SplineNext]_vars

(***************************************************************************)
(* Track map loader: trackMapLoader.js loadTrackMap, clearTrackMapCache,   *)
(* readPreviewTrackMap, normalizeTrackMapData.  loadTrackMap is an async   *)
(* function: a call runs to its first await, and each later part runs when *)
(* the awaited promise settles, so calls interleave at their awaits.  A    *)
(* value that may be null or absent is None or Some(v); a view box is in   *)
(* fortieths of a unit (the padding factor is 0.05, half of it 1/40).      *)
(***************************************************************************)
MaxLoads == 3

\* normalizePolyline: the points with two finite coordinates, as pairs
normalizePolyline(points) ==
  IF points = None THEN <<>>
  ELSE LET kept == SelectSeq(points[1], LAMBDA p : p.x # None /\ p.y # None)
       IN [k \in DOMAIN kept |-> <<kept[k].x[1], kept[k].y[1]>>]

\* computeViewBox(polylines)
computeViewBox(polylines) ==
  LET points == polylines[1] \o polylines[2] \o polylines[3]
      xs == [k \in DOMAIN points |-> points[k][1]]
      ys == [k \in DOMAIN points |-> points[k][2]]
      width == IF SeqMax(xs) - SeqMin(xs) = 0 THEN 1 ELSE SeqMax(xs) - SeqMin(xs)
      height == IF SeqMax(ys) - SeqMin(ys) = 0 THEN 1 ELSE SeqMax(ys) - SeqMin(ys)
  IN IF points = <<>> THEN <<0, 0, 40, 40>>
     ELSE <<40 * SeqMin(xs) - width, 40 * SeqMin(ys) - height, 42 * width, 42 * height>>

\* a ?? b
Coalesce(a, b) == IF a # None THEN a ELSE b

\* normalizeTrackMapData(rawMap, trackId): null (None) or Some(track map).
\* The payloads here carry no meta, viewBox, version, trackName, generatedAt
\* or smoothingWindow, so those fields of the result are their defaults and
\* only version and viewBox are kept.
normalizeTrackMapData(rawMap, trackId) ==
  IF rawMap = None THEN None
  ELSE LET raw == rawMap[1]
           left == normalizePolyline(Coalesce(raw.left, raw.leftEdge))
           right == normalizePolyline(Coalesce(raw.right, raw.rightEdge))
           center == normalizePolyline(Coalesce(raw.center, raw.centerline))
           fallbackCount == IF Len(center) # 0 THEN Len(center)
                            ELSE Max(Len(left), Len(right))
           sampleCount == IF raw.sampleCount # None THEN raw.sampleCount
                          ELSE IF fallbackCount # 0 THEN Some(fallbackCount) ELSE None
       IN IF left = <<>> /\ right = <<>> /\ center = <<>> THEN None
          ELSE Some([trackId |-> Coalesce(raw.trackId, Some(trackId)),
                     version |-> 1, sampleCount |-> sampleCount,
                     left |-> left, right |-> right, center |-> center,
                     viewBox |-> computeViewBox(<<left, right, center>>)])

\* readPreviewTrackMap(trackId): the preview's map, and the storage afterwards
readPreviewTrackMap(preview, trackId) ==
  IF preview = None \/ preview[1].trackId # trackId
  THEN [map |-> None, preview |-> preview]
  ELSE IF preview[1].expired THEN [map |-> None, preview |-> None]
  ELSE [map |-> normalizeTrackMapData(preview[1].trackMap, trackId), preview |-> preview]

TrackIds == {"spa", "monza"}

RawPoint(x, y) == [x |-> x, y |-> y]
RawMapOf(left, center, leftEdge, sampleCount) ==
  Some([left |-> left, right |-> None, center |-> center, leftEdge |-> leftEdge,
        rightEdge |-> None, centerline |-> None, trackId |-> None,
        sampleCount |-> sampleCount])

\* What response.json() can resolve to: a simple map, a legacy map with a
\* point that is not finite, an object without coordinates, and null.
RawMaps ==
  {RawMapOf(Some(<<RawPoint(Some(0), Some(0)), RawPoint(Some(1), Some(0))>>),
            Some(<<RawPoint(Some(0), Some(5))>>), None, Some(100)),
   RawMapOf(None, None, Some(<<RawPoint(Some(2), Some(3)), RawPoint(None, Some(1))>>), None),
   RawMapOf(None, None, None, None),
   None}

Previews ==
  {None} \cup {Some([trackId |-> "spa", expired |-> e, trackMap |-> m]) :
                 e \in BOOLEAN, m \in RawMaps}

LoaderInit ==
  /\ clamp = Idle /\ guard = Idle /\ pipe = Idle /\ outl = Idle /\ resample = Idle /\ calib = Idle /\ budget = Idle /\ spline = Idle /\ stage = Idle /\ smooth = Idle /\ edges = Idle /\ find = Idle /\ viewer = Idle /\ share = Idle /\ apex = Idle /\ envl = Idle /\ kern = Idle /\ page = Idle
  /\ \E preview \in Previews :
       loader = [pc |-> "page", preview |-> preview,
                 trackMapCache |-> [t \in TrackIds |-> None],
                 calls |-> [c \in 1..MaxLoads |-> [pc |-> "unused"]],
                 fetchCalls |-> 0, log |-> <<>>]

\* The call returns outcome: it is written to the log.
LoadReturns(l, c, trackId, outcome, fetched) ==
  [l EXCEPT !.calls[c] = [pc |-> "returned"],
            !.log = Append(@, [kind |-> "return", call |-> c, trackId |-> trackId,
                               outcome |-> outcome, fetched |-> fetched])]

\* trackMapCache.set(trackId, outcome); return outcome
CacheAndReturn(l, c, trackId, outcome, fetched) ==
  LoadReturns([l EXCEPT !.trackMapCache[trackId] = Some(outcome)], c, trackId, outcome,
              fetched)

\* loadTrackMap(trackId) up to 'await fetch(...)'
LoadCall(c, trackId) ==
  /\ loader.calls[c].pc = "unused"
  /\ \A b \in 1..(c - 1) : loader.calls[b].pc # "unused"
  /\ LET started == [loader EXCEPT !.log = Append(@, [kind |-> "call", call |-> c,
                                                       trackId |-> trackId])]
         read == readPreviewTrackMap(loader.preview, trackId)
         looked == [started EXCEPT !.preview = read.preview]
     IN IF loader.trackMapCache[trackId] # None
        THEN loader' = LoadReturns(started, c, trackId, loader.trackMapCache[trackId][1],
                                   FALSE)
        ELSE IF read.map # None
        THEN loader' = CacheAndReturn(looked, c, trackId, read.map, FALSE)
        ELSE loader' = [looked EXCEPT !.calls[c] = [pc |-> "fetch", trackId |-> trackId],
                                      !.fetchCalls = @ + 1]
  /\ UNCHANGED notLoader

\* the fetch settles: it rejects, or resolves to a response with a status
FetchSettles(c, status) ==
  /\ loader.calls[c].pc = "fetch"
  /\ LET trackId == loader.calls[c].trackId
     IN IF status = 200
        THEN loader' = [loader EXCEPT !.calls[c].pc = "json"]
        ELSE loader' = CacheAndReturn(loader, c, trackId, None, TRUE)
  /\ UNCHANGED notLoader

\* response.json() settles: it rejects (parsed = FALSE) or resolves to rawMap
JsonSettles(c, parsed, rawMap) ==
  /\ loader.calls[c].pc = "json"
  /\ LET trackId == loader.calls[c].trackId
         trackMap == IF parsed THEN normalizeTrackMapData(rawMap, trackId) ELSE None
     IN loader' = CacheAndReturn(loader, c, trackId, trackMap, TRUE)
  /\ UNCHANGED notLoader

\* clearTrackMapCache()
ClearTrackMapCache ==
  /\ loader.pc = "page"
  /\ Len(SelectSeq(loader.log, LAMBDA e : e.kind = "clear")) < 1
  /\ loader' = [loader EXCEPT !.trackMapCache = [t \in TrackIds |-> None],
                              !.log = Append(@, [kind |-> "clear"])]
  /\ UNCHANGED notLoader

LoaderNext ==
  \/ \E c \in 1..MaxLoads, trackId \in TrackIds : LoadCall(c, trackId)
  \/ \E c \in 1..MaxLoads, status \in {0, 200, 404, 500} : FetchSettles(c, status)
  \/ \E c \in 1..MaxLoads, parsed \in BOOLEAN, rawMap \in RawMaps :
       JsonSettles(c, parsed, rawMap)
  \/ ClearTrackMapCache

SpecLoader == LoaderInit /\ [][LoaderNext]_vars

(***************************************************************************)
(* utils.js findSampleAtDistance: a binary search over samples sorted by   *)
(* distance.  Array indices are 0-based as in the source; sample k of the  *)
(* source is samples[k + 1] here.                                          *)
(***************************************************************************)
MaxFind == 3
MaxDistance == 4

FindDistances == 0..MaxDistance

\* the sample lists sorted by increasing distance
SortedSamples ==
  {s \in UNION {[1..n -> [distance : FindDistances]] : n \in 0..MaxFind} :
     \A k \in 1..(Len(s) - 1) : s[k].distance <= s[k + 1].distance}

FindInit ==
  /\ clamp = Idle /\ guard = Idle /\ pipe = Idle /\ outl = Idle /\ resample = Idle /\ calib = Idle /\ budget = Idle /\ spline = Idle /\ stage = Idle /\ smooth = Idle /\ edges = Idle /\ loader = Idle /\ viewer = Idle /\ share = Idle /\ apex = Idle /\ envl = Idle /\ kern = Idle /\ page = Idle
  /\ \E samples \in SortedSamples, target \in {None} \cup {Some(d) : d \in FindDistances} :
       find = [pc |-> "start", samples |-> samples, target |-> target]

\* if (!samples.length || target == null) return null; left = 0; right = length - 1
FindStart ==
  /\ find.pc = "start"
  /\ IF Len(find.samples) = 0 \/ find.target = None
     THEN find' = [pc |-> "returned", samples |-> find.samples, target |-> find.target,
                   result |-> None]
     ELSE find' = [pc |-> "loop", samples |-> find.samples, target |-> find.target,
                   left |-> 0, right |-> Len(find.samples) - 1]
  /\ UNCHANGED notFind

\* the index returned after the loop
ClampedIndex(samples, left) == Max(0, Min(Len(samples) - 1, left))

\* one test of the while condition and, when it holds, one pass of the body
FindStep ==
  /\ find.pc = "loop"
  /\ LET mid == (find.left + find.right) \div 2
         value == find.samples[mid + 1].distance
     IN IF find.left > find.right
        THEN find' = [pc |-> "returned", samples |-> find.samples, target |-> find.target,
                      result |-> Some(ClampedIndex(find.samples, find.left))]
        ELSE IF value = find.target[1]
        THEN find' = [pc |-> "returned", samples |-> find.samples, target |-> find.target,
                      result |-> Some(mid)]
        ELSE IF value < find.target[1]
        THEN find' = [find EXCEPT !.left = mid + 1]
        ELSE find' = [find EXCEPT !.right = mid - 1]
  /\ UNCHANGED notFind

FindNext == FindStart \/ FindStep

SpecFind == FindInit /\ [][FindNext]_vars

(***************************************************************************)
(* state.js: the viewer state, getLapColor, setActiveLapId and resetState. *)
(* The Map lapColors is the sequence of its entries in insertion order.    *)
(* Lap ids are numbers; the functions use them only as keys.  lastCall and *)
(* firstColor record what getLapColor returned, for the properties.        *)
(***************************************************************************)
PALETTE == <<"#0ea5e9", "#ef4444", "#10b981", "#f97316", "#8b5cf6", "#facc15", "#1b5f8c", "#f43f5e">>

MaxLapIds == 9
LapIds == 1..MaxLapIds

ViewerInit ==
  /\ clamp = Idle /\ guard = Idle /\ pipe = Idle /\ outl = Idle /\ resample = Idle /\ calib = Idle /\ budget = Idle /\ spline = Idle /\ stage = Idle /\ smooth = Idle /\ edges = Idle /\ loader = Idle /\ find = Idle /\ share = Idle /\ apex = Idle /\ envl = Idle /\ kern = Idle /\ page = Idle
  /\ viewer = [pc |-> "page", laps |-> <<>>, lapVisibility |-> {}, activeLapId |-> None,
               viewWindow |-> None, cursorDistance |-> None, lapColors |-> <<>>,
               trackProjectionLapId |-> None, trackProjectionPoints |-> <<>>,
               charts |-> [throttle |-> None, brake |-> None],
               lastCall |-> None, firstColor |-> [id \in LapIds |-> None]]

\* state.lapColors.has(lapId), state.lapColors.get(lapId)
MapHas(map, key) == \E k \in DOMAIN map : map[k].key = key
MapGet(map, key) == map[CHOOSE k \in DOMAIN map : map[k].key = key].value

\* PALETTE[state.lapColors.size % PALETTE.length]
NextColorAfter(size) == PALETTE[((size + 1) % Len(PALETTE)) + 1]
NextColor(size) == PALETTE[(size % Len(PALETTE)) + 1]

\* The ids a call may pass: any id that has a colour, or the smallest or the
\* largest id that has none.
Unseen == {id \in LapIds : ~MapHas(viewer.lapColors, id)}
CallableIds ==
  (LapIds \ Unseen)
    \cup {id \in Unseen : (\A o \in Unseen : id <= o) \/ (\A o \in Unseen : id >= o)}

getLapColor(lapId) ==
  /\ viewer.pc = "page"
  /\ lapId \in CallableIds
  /\ LET lapColors == IF MapHas(viewer.lapColors, lapId) THEN viewer.lapColors
                      ELSE Append(viewer.lapColors,
                                  [key |-> lapId, value |-> NextColor(Len(viewer.lapColors))])
         color == MapGet(lapColors, lapId)
     IN viewer' = [viewer EXCEPT !.lapColors = lapColors,
                                 !.lastCall = Some([lapId |-> lapId, color |-> color]),
                                 !.firstColor[lapId] = IF @ = None THEN Some(color) ELSE @]
  /\ UNCHANGED notViewer

setActiveLapId(lapId) ==
  /\ viewer.pc = "page"
  /\ viewer' = [viewer EXCEPT !.activeLapId = lapId]
  /\ UNCHANGED notViewer

resetState ==
  /\ viewer.pc = "page"
  /\ viewer' = [viewer EXCEPT !.laps = <<>>, !.lapVisibility = {}, !.activeLapId = None,
                              !.viewWindow = None, !.cursorDistance = None,
                              !.lapColors = <<>>, !.trackProjectionLapId = None,
                              !.trackProjectionPoints = <<>>,
                              !.charts = [throttle |-> None, brake |-> None],
                              !.lastCall = None,
                              !.firstColor = [id \in LapIds |-> None]]
  /\ UNCHANGED notViewer

ViewerNext ==
  \/ \E lapId \in LapIds : getLapColor(lapId)
  \/ \E lapId \in {None, Some(1)} : setActiveLapId(lapId)
  \/ resetState

SpecViewer == ViewerInit /\ [][ViewerNext]_vars

(***************************************************************************)
(* share.js: quantizeSample, encodeSamples, decodeSamples and the varint   *)
(* helpers.  The bitwise operators of JavaScript work on 32-bit words: a   *)
(* word is the function from bit positions 0..31 to its bits, Int32 words  *)
(* read as two's complement.  A sample field is null (None) or a number;   *)
(* the fields scaled by a power of ten are given as [whole, half], the     *)
(* value (whole + half/2) / scale, so that rounding has its half cases.    *)
(* A decoded field n / d is kept as the pair Over(n, d): the quotients of  *)
(* two different integers below 2^32 by the same scale are different.      *)
(***************************************************************************)
DISTANCE_SCALE == 100
TIME_SCALE == 1000
COORD_SCALE == 1000
SPEED_SCALE == 10
RPM_SCALE == 10

Int32Max == 2147483647
Int32Min == (-2147483647) - 1

Bits == 0..31
Pow2(k) == Pow(2, k)

\* ToInt32 of an integer already in the Int32 range, as a word
ToInt32(v) ==
  [k \in Bits |-> IF k = 31 THEN (IF v < 0 THEN 1 ELSE 0) ELSE (v \div Pow2(k)) % 2]

RECURSIVE BitsValue(_, _)
\* the number made of bits 0..k of a word
BitsValue(w, k) == IF k < 0 THEN 0 ELSE w[k] * Pow2(k) + BitsValue(w, k - 1)

\* a word read as a signed 32-bit integer
ToSigned(w) == IF w[31] = 1 THEN (BitsValue(w, 30) - Int32Max) - 1 ELSE BitsValue(w, 30)

\* a << s, a >> s, a >>> s, a ^ b, a | b on words (shift counts are taken mod 32)
ShiftLeft(w, s) == [k \in Bits |-> IF k >= s % 32 THEN w[k - (s % 32)] ELSE 0]
ShiftRight(w, s) == [k \in Bits |-> IF k + (s % 32) <= 31 THEN w[k + (s % 32)] ELSE w[31]]
ShiftRightUnsigned(w, s) == [k \in Bits |-> IF k + (s % 32) <= 31 THEN w[k + (s % 32)] ELSE 0]
BitXor(a, b) == [k \in Bits |-> (a[k] + b[k]) % 2]
BitOr(a, b) == [k \in Bits |-> Max(a[k], b[k])]

\* clamp(value, min, max)
ShareClamp(value, min, max) == Min(max, Max(min, value))

\* Math.round((field ?? 0) * scale) of a field given as [whole, half]
RoundScaled(field) == IF field = None THEN 0 ELSE field[1].whole + field[1].half

\* Math.round((field ?? 0) * num / den)
RoundTimes(field, num, den) == IF field = None THEN 0 ELSE RoundDiv(field[1] * num, den)

quantizeSample(sample) ==
  [distance |-> RoundScaled(sample.distance),
   time |-> RoundScaled(sample.time),
   throttle |-> ShareClamp(RoundTimes(sample.throttle, 255, 100), 0, 255),
   brake |-> ShareClamp(RoundTimes(sample.brake, 255, 100), 0, 255),
   steer |-> ShareClamp(IF sample.steer = None THEN RoundDiv(100 * 1275, 1000)
                        ELSE RoundDiv((sample.steer[1] + 100) * 1275, 1000), 0, 255),
   speed |-> ShareClamp(RoundTimes(sample.speed, SPEED_SCALE, 1), 0, 4000),
   gear |-> ShareClamp(RoundTimes(sample.gear, 1, 1), -32, 31),
   rpm |-> ShareClamp(RoundTimes(sample.rpm, 1, RPM_SCALE), 0, 20000),
   x |-> RoundScaled(sample.x),
   y |-> RoundScaled(sample.y),
   z |-> RoundScaled(sample.z)]

RECURSIVE writeUnsignedVarint(_, _)
\* writeUnsignedVarint(buffer, value): the buffer afterwards; value is a word
writeUnsignedVarint(buffer, v) ==
  IF \E k \in 7..31 : v[k] = 1
  THEN writeUnsignedVarint(Append(buffer, BitsValue(v, 6) + 128), ShiftRightUnsigned(v, 7))
  ELSE Append(buffer, BitsValue(v, 6))

\* (value << 1) ^ (value >> 31)
ZigZagShiftOnly(value) == ShiftLeft(value, 1)
ZigZag(value) == BitXor(ShiftLeft(value, 1), ShiftRight(value, 31))

writeSignedVarint(buffer, value) == writeUnsignedVarint(buffer, ZigZag(ToInt32(value)))

RECURSIVE ReadVarintFrom(_, _, _, _)
\* the loop of readUnsignedVarint: [ok, value, offset], ok FALSE for the throw
ReadVarintFrom(bytes, offset, result, shift) ==
  IF offset >= Len(bytes) THEN [ok |-> FALSE, value |-> result, offset |-> offset]
  ELSE LET byte == bytes[offset + 1]
           next == BitOr(result, ShiftLeft(ToInt32(byte % 128), shift))
       IN IF byte < 128 THEN [ok |-> TRUE, value |-> next, offset |-> offset + 1]
          ELSE ReadVarintFrom(bytes, offset + 1, next, shift + 7)

readUnsignedVarint(bytes, offset) == ReadVarintFrom(bytes, offset, ToInt32(0), 0)

\* (value >>> 1) ^ -(value & 1)
readSignedVarint(bytes, offset) ==
  LET read == readUnsignedVarint(bytes, offset)
  IN [read EXCEPT !.value = ToSigned(BitXor(ShiftRightUnsigned(@, 1),
                                            [k \in Bits |-> read.value[0]]))]

readByte(bytes, offset) ==
  IF offset >= Len(bytes) THEN [ok |-> FALSE, value |-> 0, offset |-> offset]
  ELSE [ok |-> TRUE, value |-> bytes[offset + 1], offset |-> offset + 1]

Over(n, d) == [n |-> n, d |-> d]

ZeroPrev == [distance |-> 0, time |-> 0, x |-> 0, y |-> 0, z |-> 0]

\* one call of the forEach callback of encodeSamples
EncodeOne(bytes, prev, sample) ==
  LET q == quantizeSample(sample)
      b1 == writeSignedVarint(bytes, q.distance - prev.distance)
      b2 == writeSignedVarint(b1, q.time - prev.time)
      b3 == b2 \o <<q.throttle, q.brake, q.steer>>
      b4 == writeUnsignedVarint(b3, ToInt32(q.speed))
      b5 == writeSignedVarint(b4, q.gear)
      b6 == writeUnsignedVarint(b5, ToInt32(q.rpm))
      b7 == writeSignedVarint(b6, q.x - prev.x)
      b8 == writeSignedVarint(b7, q.y - prev.y)
      b9 == writeSignedVarint(b8, q.z - prev.z)
  IN [bytes |-> b9,
      prev |-> [distance |-> q.distance, time |-> q.time, x |-> q.x, y |-> q.y, z |-> q.z]]

\* one pass of the loop of decodeSamples
DecodeOne(bytes, offset, prev) ==
  LET distance == readSignedVarint(bytes, offset)
      time == readSignedVarint(bytes, distance.offset)
      throttle == readByte(bytes, time.offset)
      brake == readByte(bytes, throttle.offset)
      steer == readByte(bytes, brake.offset)
      speed == readUnsignedVarint(bytes, steer.offset)
      gear == readSignedVarint(bytes, speed.offset)
      rpm == readUnsignedVarint(bytes, gear.offset)
      x == readSignedVarint(bytes, rpm.offset)
      y == readSignedVarint(bytes, x.offset)
      z == readSignedVarint(bytes, y.offset)
      now == [distance |-> prev.distance + distance.value, time |-> prev.time + time.value,
              x |-> prev.x + x.value, y |-> prev.y + y.value, z |-> prev.z + z.value]
      reads == <<distance, time, throttle, brake, steer, speed, gear, rpm, x, y, z>>
  IN IF \E k \in DOMAIN reads : ~reads[k].ok
     THEN [ok |-> FALSE]
     ELSE [ok |-> TRUE, offset |-> z.offset, prev |-> now,
           sample |-> [distance |-> Over(now.distance, DISTANCE_SCALE),
                       time |-> Over(now.time, TIME_SCALE),
                       throttle |-> Over(throttle.value * 100, 255),
                       brake |-> Over(brake.value * 100, 255),
                       steer |-> Over(steer.value * 1000 - 127500, 1275),
                       speed |-> Over(speed.value, SPEED_SCALE),
                       gear |-> gear.value,
                       rpm |-> Over(rpm.value, 1),
                       x |-> Over(now.x, COORD_SCALE),
                       y |-> Over(now.y, COORD_SCALE),
                       z |-> Over(now.z, COORD_SCALE)]]

MaxShare == 3

Scaled(whole, half) == Some([whole |-> whole, half |-> half])

\* Samples with null fields, with values at the ends of the 32-bit range,
\* with fields outside their clamps, and with one- and two-byte varints.
ShareSamples ==
  {[distance |-> None, time |-> None, throttle |-> None, brake |-> None, steer |-> None,
    speed |-> None, gear |-> None, rpm |-> None, x |-> None, y |-> None, z |-> None],
   [distance |-> Scaled(Int32Max, 0), time |-> Scaled(Int32Min, 0), throttle |-> Some(100),
    brake |-> Some(50), steer |-> Some(-100), speed |-> Some(400), gear |-> Some(-32),
    rpm |-> Some(200000), x |-> Scaled(1, 1), y |-> Scaled(-1, 1), z |-> Scaled(300, 0)],
   [distance |-> Scaled(0, 0), time |-> Scaled(-1, 0), throttle |-> Some(150),
    brake |-> Some(-5), steer |-> Some(100), speed |-> Some(500), gear |-> Some(40),
    rpm |-> Some(7995), x |-> Scaled(-64, 0), y |-> Scaled(64, 0),
    z |-> Scaled(-1073741824, 0)],
   [distance |-> Scaled(12345, 0), time |-> Scaled(61234, 1), throttle |-> Some(33),
    brake |-> Some(0), steer |-> Some(7), speed |-> Some(13), gear |-> Some(3),
    rpm |-> Some(1234), x |-> Scaled(-8192, 0), y |-> Scaled(8191, 0),
    z |-> Scaled(1073741823, 0)]}

\* a - b is a signed 32-bit integer, for a and b that are
FitsInt32(a, b) ==
  IF (a >= 0) = (b >= 0) THEN TRUE
  ELSE IF a >= 0 THEN a <= Int32Max + b
  ELSE (a + Int32Max) + 1 >= b

\* The quantized fields (they are in range by construction of the samples)
\* and their successive deltas fit in signed 32-bit integers.
DeltasFit(samples) ==
  \A k \in DOMAIN samples :
    LET q == quantizeSample(samples[k])
        p == IF k = 1 THEN ZeroPrev ELSE quantizeSample(samples[k - 1])
    IN /\ FitsInt32(q.distance, p.distance) /\ FitsInt32(q.time, p.time)
       /\ FitsInt32(q.x, p.x) /\ FitsInt32(q.y, p.y) /\ FitsInt32(q.z, p.z)

ShareLists ==
  {s \in UNION {[1..n -> ShareSamples] : n \in 0..MaxShare} : DeltasFit(s)}

ShareInit ==
  /\ clamp = Idle /\ guard = Idle /\ pipe = Idle /\ outl = Idle /\ resample = Idle /\ calib = Idle /\ budget = Idle /\ spline = Idle /\ stage = Idle /\ smooth = Idle /\ edges = Idle /\ loader = Idle /\ find = Idle /\ viewer = Idle /\ apex = Idle /\ envl = Idle /\ kern = Idle /\ page = Idle
  /\ \E samples \in ShareLists :
       share = [pc |-> "encode", samples |-> samples, i |-> 0, bytes |-> <<>>,
                prev |-> ZeroPrev]

\* samples.forEach callback, sample i
ShareEncodeSample ==
  /\ share.pc = "encode"
  /\ share.i < Len(share.samples)
  /\ LET r == EncodeOne(share.bytes, share.prev, share.samples[share.i + 1])
     IN share' = [share EXCEPT !.i = @ + 1, !.bytes = r.bytes, !.prev = r.prev]
  /\ UNCHANGED notShare

\* encodeSamples returns; decodeSamples(bytes, samples.length) starts
ShareDecodeCall ==
  /\ share.pc = "encode"
  /\ share.i = Len(share.samples)
  /\ share' = [pc |-> "decode", samples |-> share.samples, bytes |-> share.bytes,
               count |-> Len(share.samples), i |-> 0, offset |-> 0, prev |-> ZeroPrev,
               decoded |-> <<>>]
  /\ UNCHANGED notShare

\* one pass of the loop of decodeSamples
ShareDecodeSample ==
  /\ share.pc = "decode"
  /\ share.i < share.count
  /\ LET r == DecodeOne(share.bytes, share.offset, share.prev)
     IN IF r.ok
        THEN share' = [share EXCEPT !.i = @ + 1, !.offset = r.offset, !.prev = r.prev,
                                    !.decoded = Append(@, r.sample)]
        ELSE share' = [share EXCEPT !.pc = "threw"]
  /\ UNCHANGED notShare

\* return samples
ShareDecodeReturn ==
  /\ share.pc = "decode"
  /\ share.i >= share.count
  /\ share' = [share EXCEPT !.pc = "returned"]
  /\ UNCHANGED notShare

ShareNext ==
  \/ ShareEncodeSample
  \/ ShareDecodeCall
  \/ ShareDecodeSample
  \/ ShareDecodeReturn

SpecShare == ShareInit /\ [][ShareNext]_vars

(***************************************************************************)
(* detectApexIndices step by step (spline.js 292-323), on the signed       *)
(* turning angles that the missing computeSignedAngles would return:       *)
(* the scan for peaks, the sort by descending curvature, the merge loop.   *)
(***************************************************************************)
MaxApex == 6

\* turning angles: none, a gentle and a sharp turn (to either hand)
ApexAngles == {0, 200, -300}

\* spacings of 5 m, 2.5 m and 1 m: merge distances of 1, 2 and 5 samples
ApexSpacings == {5 * MilliPerMeter, (5 * MilliPerMeter) \div 2, MilliPerMeter}

ApexInit ==
  /\ clamp = Idle /\ guard = Idle /\ pipe = Idle /\ outl = Idle /\ resample = Idle /\ calib = Idle /\ budget = Idle /\ spline = Idle /\ stage = Idle /\ smooth = Idle /\ edges = Idle /\ loader = Idle /\ find = Idle /\ viewer = Idle /\ share = Idle /\ envl = Idle /\ kern = Idle /\ page = Idle
  /\ \E angles \in SeqsUpTo(ApexAngles, MaxApex), spacingMeters \in ApexSpacings :
       apex = [pc |-> "scan", spacingMeters |-> spacingMeters,
               curvature |-> [i \in DOMAIN angles |-> Abs(angles[i])],
               i |-> 0, peaks |-> <<>>]

\* for (let i = 0; i < n; i++) { if (...) peaks.push(i); }
ApexScan ==
  /\ apex.pc = "scan"
  /\ apex.i < Len(apex.curvature)
  /\ apex' = [apex EXCEPT !.i = @ + 1,
                          !.peaks = IF IsPeak(apex.curvature, apex.i)
                                    THEN Append(@, apex.i) ELSE @]
  /\ UNCHANGED notApex

\* peaks.sort(...); mergeSamples = ...; merged = []
ApexSort ==
  /\ apex.pc = "scan"
  /\ apex.i >= Len(apex.curvature)
  /\ apex' = [pc |-> "merge", spacingMeters |-> apex.spacingMeters,
              curvature |-> apex.curvature,
              peaks |-> SortPeaks(apex.peaks, apex.curvature),
              mergeSamples |-> MergeSamples(apex.spacingMeters),
              k |-> 0, merged |-> <<>>]
  /\ UNCHANGED notApex

\* for (const idx of peaks) { ... }
ApexMerge ==
  /\ apex.pc = "merge"
  /\ apex.k < Len(apex.peaks)
  /\ apex' = [apex EXCEPT !.k = @ + 1,
                          !.merged = MergeStep(@, apex.peaks[apex.k + 1],
                                               [n |-> Len(apex.curvature),
                                                mergeSamples |-> apex.mergeSamples,
                                                curvature |-> apex.curvature])]
  /\ UNCHANGED notApex

\* return merged
ApexReturn ==
  /\ apex.pc = "merge"
  /\ apex.k >= Len(apex.peaks)
  /\ apex' = [apex EXCEPT !.pc = "returned"]
  /\ UNCHANGED notApex

ApexNext == ApexScan \/ ApexSort \/ ApexMerge \/ ApexReturn

SpecApex == ApexInit /\ [][ApexNext]_vars

(***************************************************************************)
(* buildConstantWidthEnvelope sample by sample (spline.js 445-494).        *)
(* Widths are whole decimetres given in millimetres, so that 0.95 and 0.4  *)
(* of them are whole millimetres.                                          *)
(***************************************************************************)
MaxEnvelope == 3

\* The kinds of sample, <<halfWidthLeft, halfWidthRight, angle>>: clear left
\* and right turns, a straight, angles inside the dead band and on its
\* edge, a negative raw width, and a wide inside.
EnvelopeKinds ==
  {<<4000, 5000, 200>>, <<4000, 5000, -200>>, <<4000, 5000, 0>>, <<4000, 5000, -5>>,
   <<-1000, 3000, 200>>, <<8000, 500, 5>>, <<500, 9000, -AngleTie>>}

EnvelopeTargets == {0, 6000, 10000, -1000}

EnvelopeInit ==
  /\ clamp = Idle /\ guard = Idle /\ pipe = Idle /\ outl = Idle /\ resample = Idle /\ calib = Idle /\ budget = Idle /\ spline = Idle /\ stage = Idle /\ smooth = Idle /\ edges = Idle /\ loader = Idle /\ find = Idle /\ viewer = Idle /\ share = Idle /\ apex = Idle /\ kern = Idle /\ page = Idle
  /\ \E kinds \in SeqsUpTo(EnvelopeKinds, MaxEnvelope), targetWidth \in EnvelopeTargets,
        withAngles \in BOOLEAN :
       envl = [pc |-> "loop", i |-> 0,
               halfWidthLeft |-> [k \in DOMAIN kinds |-> kinds[k][1]],
               halfWidthRight |-> [k \in DOMAIN kinds |-> kinds[k][2]],
               signedAngles |-> IF withAngles THEN Some([k \in DOMAIN kinds |-> kinds[k][3]])
                                ELSE None,
               targetWidth |-> targetWidth,
               resultLeft |-> [k \in DOMAIN kinds |-> 0],
               resultRight |-> [k \in DOMAIN kinds |-> 0],
               insideLeftCount |-> 0, insideRightCount |-> 0, lastInsideLeft |-> TRUE,
               insideLeft |-> <<>>]

\* for (let i = 0; i < n; i++) { ... }
EnvelopeStep ==
  /\ envl.pc = "loop"
  /\ envl.i < Len(envl.halfWidthLeft)
  /\ LET i == envl.i + 1
         angle == IF envl.signedAngles # None THEN envl.signedAngles[1][i] ELSE 0
         insideLeft == InsideLeftAt(angle, envl.lastInsideLeft)
         pair == EnvelopeSample(IF insideLeft THEN envl.halfWidthLeft[i]
                                ELSE envl.halfWidthRight[i], envl.targetWidth)
     IN envl' = [envl EXCEPT !.i = @ + 1,
                             !.lastInsideLeft = insideLeft,
                             !.insideLeft = Append(@, insideLeft),
                             !.resultLeft[i] = IF insideLeft THEN pair[1] ELSE pair[2],
                             !.resultRight[i] = IF insideLeft THEN pair[2] ELSE pair[1],
                             !.insideLeftCount = IF insideLeft THEN @ + 1 ELSE @,
                             !.insideRightCount = IF insideLeft THEN @ ELSE @ + 1]
  /\ UNCHANGED notEnvelope

\* return { halfWidthLeft, halfWidthRight, stats }
EnvelopeReturn ==
  /\ envl.pc = "loop"
  /\ envl.i >= Len(envl.halfWidthLeft)
  /\ envl' = [envl EXCEPT !.pc = "returned"]
  /\ UNCHANGED notEnvelope

EnvelopeNext == EnvelopeStep \/ EnvelopeReturn

SpecEnvelope == EnvelopeInit /\ [][EnvelopeNext]_vars

(***************************************************************************)
(* The kernel cache across calls: smoothing.js sgKernelCache,              *)
(* getSavitzkyGolayKernel with its spacing and key, and the pivot test of  *)
(* invertMatrix.  Spacings are in units of 1e-5.  With sample positions    *)
(* i * safeSpacing the k-th pivot of A^T A is (D_k / D_(k-1)) *            *)
(* safeSpacing^(2(k-1)), D_k being the k-th leading minor of the matrix    *)
(* for unit spacing; the odd moments vanish, so a lower row never has a    *)
(* larger entry in the pivot's column and the row swap finds nothing.      *)
(* The comparison with 1e-12 is exact, on numbers kept as sequences of     *)
(* digits in base 10000, least significant first.                          *)
(***************************************************************************)
BigBase == 100 * 100

RECURSIVE BigOf(_)
\* a natural number as digits
BigOf(v) == IF v < BigBase THEN <<v>> ELSE <<v % BigBase>> \o BigOf(v \div BigBase)

RECURSIVE BigTimesFrom(_, _, _)
\* digits times a factor below 2 * 10^5, with the carry coming in
BigTimesFrom(digits, factor, carry) ==
  IF digits = <<>> THEN (IF carry = 0 THEN <<>> ELSE BigOf(carry))
  ELSE LET v == Head(digits) * factor + carry
       IN <<v % BigBase>> \o BigTimesFrom(Tail(digits), factor, v \div BigBase)

RECURSIVE BigTimesPower(_, _, _)
\* digits * factor^power
BigTimesPower(digits, factor, power) ==
  IF power = 0 THEN digits
  ELSE BigTimesPower(BigTimesFrom(digits, factor, 0), factor, power - 1)

RECURSIVE BigTrim(_)
BigTrim(digits) ==
  IF digits # <<>> /\ digits[Len(digits)] = 0 THEN BigTrim(SubSeq(digits, 1, Len(digits) - 1))
  ELSE digits

RECURSIVE BigLessFrom(_, _, _)
BigLessFrom(a, b, k) ==
  IF k = 0 THEN FALSE
  ELSE IF a[k] # b[k] THEN a[k] < b[k]
  ELSE BigLessFrom(a, b, k - 1)

BigLess(a, b) ==
  LET x == BigTrim(a)
      y == BigTrim(b)
  IN IF Len(x) # Len(y) THEN Len(x) < Len(y) ELSE BigLessFrom(x, y, Len(x))

\* Math.max(spacing, 1e-3), in units of 1e-5
SafeSpacing(spacing) == Max(spacing, 100)

\* The leading minors of A^T A for unit spacing, D_0 = 1 first: they are the
\* same for every order that reaches them, and are computed once.
LeadingMinors ==
  Tuple([w \in 1..SGWindow |->
           LET ATA == NormalMatrix(w, SGOrder)
           IN Tuple([k \in 1..(SGOrder + 2) |->
                       IF k = 1 THEN 1
                       ELSE Det([i \in 1..(k - 1) |-> [j \in 1..(k - 1) |-> ATA[i][j]]], k - 1)],
                    SGOrder + 2)], SGWindow)

\* The k-th leading minor of A^T A for unit spacing.
LeadingMinor(windowSize, order, k) == LeadingMinors[windowSize][k + 1]

\* Math.abs(pivot) < 1e-12 for the k-th pivot:
\* |D_k| * s^(2(k-1)) * 10^12 < |D_(k-1)| * 10^(10(k-1)), s in units of 1e-5
PivotBelowLimit(windowSize, order, spacing, k) ==
  BigLess(BigTimesPower(BigTimesPower(BigOf(Abs(LeadingMinor(windowSize, order, k))),
                                      SafeSpacing(spacing), 2 * (k - 1)),
                        BigBase, 3),
          BigTimesPower(BigOf(Abs(LeadingMinor(windowSize, order, k - 1))),
                        100000, 2 * (k - 1)))

\* invertMatrix(ATA) throws 'Matrix is singular and cannot be inverted.'
InvertThrows(windowSize, order, spacing) ==
  \E k \in 1..(order + 1) :
    /\ \A j \in 1..(k - 1) : LeadingMinor(windowSize, order, j) # 0
    /\ PivotBelowLimit(windowSize, order, spacing, k)

\* spacing.toFixed(4), in units of 1e-4
ToFixed4(spacing) == RoundDiv(spacing, 10)

\* `${windowSize}|${order}|${spacing.toFixed(4)}`
KernelKey(windowSize, order, spacing) == <<windowSize, order, ToFixed4(spacing)>>

\* The body of getSavitzkyGolayKernel after a cache miss: the kernel, or
\* [singular |-> TRUE] for the throw of invertMatrix.
ComputeKernel(windowSize, order, spacing) ==
  IF InvertThrows(windowSize, order, spacing) THEN [singular |-> TRUE]
  ELSE sgKernelCache[windowSize][order]

MaxKernelCalls == 3

KernelWindows == {3, 8}
KernelOrders == {2, SGOrder}
\* 0.00296 and 0.00299; 1 and 1.00004
KernelSpacings == {296, 299, 100000, 100004}
KernelValues == <<0, 1000, 4000, 9000, 4000, 1000, 0, 0, 0>>

KernelInit ==
  /\ clamp = Idle /\ guard = Idle /\ pipe = Idle /\ outl = Idle /\ resample = Idle /\ calib = Idle /\ budget = Idle /\ spline = Idle /\ stage = Idle /\ smooth = Idle /\ edges = Idle /\ loader = Idle /\ find = Idle /\ viewer = Idle /\ share = Idle /\ apex = Idle /\ envl = Idle /\ page = Idle
  /\ kern = [pc |-> "page", cache |-> {}, calls |-> 0, last |-> None]

\* savitzkyGolaySmooth(values, windowSize, { order, spacing }): the kernel
\* from the cache or computed and stored, then the smoothing loop
KernelSmooth(values, windowSize, order, spacing) ==
  /\ kern.pc = "page"
  /\ kern.calls < MaxKernelCalls
  /\ LET window == OddWindow(windowSize)
         key == KernelKey(window, order, spacing)
         hit == \E e \in kern.cache : e.key = key
         kernel == IF hit THEN (CHOOSE e \in kern.cache : e.key = key).kernel
                   ELSE ComputeKernel(window, order, spacing)
         result == IF kernel.singular THEN None
                   ELSE Some([i \in DOMAIN values |->
                                SavitzkyGolayAt(values, i - 1, window, kernel, TRUE)])
     IN kern' = [kern EXCEPT
                   !.calls = @ + 1,
                   !.cache = IF hit \/ kernel.singular THEN @
                             ELSE @ \cup {[key |-> key, kernel |-> kernel]},
                   !.last = Some([windowSize |-> window, order |-> order,
                                  spacing |-> spacing, hit |-> hit, kernel |-> kernel,
                                  result |-> result])]
  /\ UNCHANGED notKernel

KernelNext ==
  \E windowSize \in KernelWindows, order \in KernelOrders, spacing \in KernelSpacings :
    KernelSmooth(KernelValues, windowSize, order, spacing)

SpecKernel == KernelInit /\ [][KernelNext]_vars

(***************************************************************************)
(* The viewer page: handleFiles with fileLoader.js loadLapFiles,           *)
(* activateLap, handleVisibilityChange and clearLaps on the state of       *)
(* state.js.  A lap is its id; a file is the id of the lap it parses to,   *)
(* or None when file.text() or parseLapFile throws.  loads holds the       *)
(* handleFiles calls that are waiting in loadLapFiles; the code between    *)
(* two awaits is one action.  The render and update calls of the handlers  *)
(* are not among the sources and are taken not to write the state below.   *)
(* last records the latest user action, for the properties.                *)
(***************************************************************************)
MaxPageIds == 2       \* distinct lap ids
MaxFiles == 2         \* files of one handleFiles call
MaxPageLoads == 2     \* handleFiles calls in flight
MaxPageLaps == 3      \* files loaded or being loaded

PageLapIds == 1..MaxPageIds
PageFiles == {None} \cup {Some(id) : id \in PageLapIds}
PageFileLists == UNION {[1..len -> PageFiles] : len \in 1..MaxFiles}

Status(text, loadedCount, failedCount) ==
  [text |-> text, loadedCount |-> loadedCount, failedCount |-> failedCount]

PageInit ==
  /\ clamp = Idle /\ guard = Idle /\ pipe = Idle /\ outl = Idle /\ resample = Idle /\ calib = Idle /\ budget = Idle /\ spline = Idle /\ stage = Idle /\ smooth = Idle /\ edges = Idle /\ loader = Idle /\ find = Idle /\ viewer = Idle /\ share = Idle /\ apex = Idle /\ envl = Idle /\ kern = Idle
  /\ page = [pc |-> "page", laps |-> <<>>, lapVisibility |-> {}, activeLapId |-> None,
             viewWindow |-> None, cursorDistance |-> None, lapColors |-> <<>>,
             status |-> Status("", 0, 0), loads |-> <<>>, last |-> None]

\* The files the calls in flight have still to read.
RECURSIVE PendingFiles(_)
PendingFiles(loads) ==
  IF loads = <<>> THEN 0
  ELSE (Len(Head(loads).files) - Head(loads).at + 1) + PendingFiles(Tail(loads))

\* state.lapColors after getLapColor(lapId)
ColorsWith(lapColors, lapId) ==
  IF MapHas(lapColors, lapId) THEN lapColors
  ELSE Append(lapColors, [key |-> lapId, value |-> NextColor(Len(lapColors))])

\* activateLap(lapId) on state st; setViewWindow(lap) leaves the window of
\* that lap
ActivatedState(st, lapId) ==
  IF ~\E k \in DOMAIN st.laps : st.laps[k] = lapId THEN st
  ELSE [st EXCEPT !.activeLapId = Some(lapId), !.cursorDistance = None,
                  !.lapVisibility = @ \cup {lapId}, !.viewWindow = Some(lapId)]

\* clearLaps() on state st: resetState and the status line
ClearedState(st) ==
  [st EXCEPT !.laps = <<>>, !.lapVisibility = {}, !.activeLapId = None,
             !.viewWindow = None, !.cursorDistance = None, !.lapColors = <<>>,
             !.status = Status("Cleared all laps.", 0, 0)]

\* if (!state.lapVisibility.size && state.activeLapId)
\*   state.lapVisibility.add(state.activeLapId)
VisibleAfterHideBare(lapVisibility, activeLapId) == lapVisibility
VisibleAfterHide(lapVisibility, activeLapId) ==
  IF lapVisibility = {} /\ activeLapId # None THEN {activeLapId[1]} ELSE lapVisibility

\* handleFiles(files) up to its await: loadLapFiles has asked for the text
\* of the first file.  The listeners call it with at least one file.
HandleFiles(files) ==
  /\ page.pc = "page"
  /\ Len(page.loads) < MaxPageLoads
  /\ Len(page.laps) + PendingFiles(page.loads) + Len(files) <= MaxPageLaps
  /\ page' = [page EXCEPT
       !.status = Status("Loading...", 0, 0),
       !.loads = Append(@, [files |-> files, at |-> 1, loadedCount |-> 0,
                            failedCount |-> 0, lastLoadedId |-> None])]
  /\ UNCHANGED notPage

\* loadLapFiles of call k: the text of its current file arrives (or fails),
\* the lap is parsed and stored, and the text of the next file is asked for.
FileSettles(k) ==
  /\ page.pc = "page"
  /\ k \in DOMAIN page.loads
  /\ page.loads[k].at <= Len(page.loads[k].files)
  /\ LET load == page.loads[k]
         file == load.files[load.at]
     IN IF file = None
        THEN page' = [page EXCEPT !.loads[k].failedCount = @ + 1, !.loads[k].at = @ + 1]
        ELSE page' = [page EXCEPT
               !.laps = Append(@, file[1]),
               !.lapVisibility = @ \cup {file[1]},
               !.lapColors = ColorsWith(@, file[1]),
               !.loads[k].lastLoadedId = file,
               !.loads[k].loadedCount = @ + 1,
               !.loads[k].at = @ + 1]
  /\ UNCHANGED notPage

\* loadLapFiles of call k has returned: the rest of handleFiles.
HandleFilesResumes(k) ==
  /\ page.pc = "page"
  /\ k \in DOMAIN page.loads
  /\ page.loads[k].at > Len(page.loads[k].files)
  /\ LET load == page.loads[k]
         st == IF load.lastLoadedId # None THEN ActivatedState(page, load.lastLoadedId[1])
               ELSE IF page.laps = <<>> THEN ClearedState(page)
               ELSE page
         text == IF load.loadedCount = 0 /\ load.failedCount = 0 THEN "No laps loaded."
                 ELSE "Loaded, failed"
     IN page' = [st EXCEPT
          !.status = Status(text, load.loadedCount, load.failedCount),
          !.loads = [j \in 1..(Len(@) - 1) |-> IF j < k THEN @[j] ELSE @[j + 1]]]
  /\ UNCHANGED notPage

\* A click in the lap list: activateLap(lapId)
ActivateLap(lapId) ==
  /\ page.pc = "page"
  /\ page' = [ActivatedState(page, lapId) EXCEPT
                !.last = Some([op |-> "activate", lapId |-> lapId, before |-> {}])]
  /\ UNCHANGED notPage

\* A visibility toggle in the lap list: handleVisibilityChange(lapId, visible)
HandleVisibilityChange(lapId, visible) ==
  /\ page.pc = "page"
  /\ page' = [page EXCEPT
       !.lapVisibility = IF visible THEN @ \cup {lapId}
                         ELSE VisibleAfterHide(@ \ {lapId}, page.activeLapId),
       !.last = Some([op |-> IF visible THEN "show" ELSE "hide", lapId |-> lapId,
                      before |-> page.lapVisibility])]
  /\ UNCHANGED notPage

\* The clear button: clearLaps()
ClearLaps ==
  /\ page.pc = "page"
  /\ page' = [ClearedState(page) EXCEPT
                !.last = Some([op |-> "clear", lapId |-> 0, before |-> {}])]
  /\ UNCHANGED notPage

PageNext ==
  \/ \E files \in PageFileLists : HandleFiles(files)
  \/ \E k \in 1..MaxPageLoads : FileSettles(k)
  \/ \E k \in 1..MaxPageLoads : HandleFilesResumes(k)
  \/ \E lapId \in PageLapIds : ActivateLap(lapId)
  \/ \E lapId \in PageLapIds, visible \in BOOLEAN : HandleVisibilityChange(lapId, visible)
  \/ ClearLaps

SpecPage == PageInit /\ [][PageNext]_vars

\* The projections of one side's raw points at the sample just processed.
SideProjections(points, sign) ==
  {sign * ((p[1] - guard.center[1]) * guard.normal[1]
           + (p[2] - guard.center[2]) * guard.normal[2]) :
     p \in {points[k] : k \in DOMAIN points} \ {None}}

\* out <= (largest projection) * clampScale, clampScale in tenths
WithinRawEnvelope(out, projections, scale) ==
  projections # {} =>
    \E m \in projections :
      /\ \A q \in projections : q <= m
      /\ 10 * out <= m * scale

ValidClampScale == guard.clampScale.finite /\ guard.clampScale.tenths \in 1..10

\* C1: for every sample and each side, the half-width returned by
\* enforceWidthConstraints is <= the largest projection of that side's raw
\* lap points at the sample times clampScale, for any input half-widths, raw
\* laps and clampScale in [0.1, 1].
C1_WithinRawEnvelope ==
  (guard.pc = "sample" /\ ValidClampScale) =>
    /\ WithinRawEnvelope(guard.leftResult,
                         SideProjections(guard.leftPoints, 1), guard.clampScale.tenths)
    /\ WithinRawEnvelope(guard.rightResult,
                         SideProjections(guard.rightPoints, -1), guard.clampScale.tenths)

\* What the code does keep: the bound holds wherever the scaled limit is positive.
C1_WithinPositiveEnvelope ==
  (guard.pc = "sample" /\ ValidClampScale) =>
    /\ (\E q \in SideProjections(guard.leftPoints, 1) : q > 0) =>
         WithinRawEnvelope(guard.leftResult,
                           SideProjections(guard.leftPoints, 1), guard.clampScale.tenths)
    /\ (\E q \in SideProjections(guard.rightPoints, -1) : q > 0) =>
         WithinRawEnvelope(guard.rightResult,
                           SideProjections(guard.rightPoints, -1), guard.clampScale.tenths)

\* Some circular neighbours of v differ by more than limit.
SlopeViolation(v, limit) ==
  \E i \in DOMAIN v : Abs(v[i] - v[IF i = 1 THEN Len(v) ELSE i - 1]) > limit

C3_FinalWidthsNonNegative ==
  pipe.pc = "done" =>
    /\ \A i \in DOMAIN pipe.halfWidthLeft : pipe.halfWidthLeft[i] >= 0
    /\ \A i \in DOMAIN pipe.halfWidthRight : pipe.halfWidthRight[i] >= 0
\* The trace of the frame meets the claim's conditions: at least 2 valid
\* samples, strictly increasing distance, non-decreasing x, and M >= 2.
StraightTrace(v, gridSize) ==
  /\ Len(v) >= 2
  /\ gridSize >= 2
  /\ \A k \in 1..(Len(v) - 1) :
       v[k].distance < v[k + 1].distance /\ v[k].x[1] <= v[k + 1].x[1]

\* q is the piecewise-linear interpolation of the trace v at progress
\* i/(gridSize-1): some two neighbouring samples bracket the progress, and q
\* lies between them in proportion (to the nearest unit).
Interpolates(q, v, i, gridSize) ==
  LET span == v[Len(v)].distance - v[1].distance
      at == i * span           \* (target distance - first distance) * (gridSize-1)
  IN \E k \in 1..(Len(v) - 1) :
       LET lo == (v[k].distance - v[1].distance) * (gridSize - 1)
           hi == (v[k + 1].distance - v[1].distance) * (gridSize - 1)
       IN /\ lo <= at /\ at <= hi
          /\ q.x = v[k].x[1] + RoundDiv((v[k + 1].x[1] - v[k].x[1]) * (at - lo), hi - lo)
          /\ q.y = getPlanarY(v[k])[1]
                   + RoundDiv((getPlanarY(v[k + 1])[1] - getPlanarY(v[k])[1]) * (at - lo),
                              hi - lo)

OnRunGrid(g) ==
  /\ Len(g) = calib.gridSize
  /\ \A i \in 1..Len(g) : g[i].progress = Frac(i - 1, calib.gridSize - 1)

\* C4: within one resampleCalibrationLaps run every grid (each per-lap grid
\* of rawSamples, rotated ones included, and each averaged role grid) has
\* gridSize points and progress i/(gridSize-1) at index i, and the run never
\* ends on the grid-size-mismatch error of averageGrid.
C4_GridsShareProgress ==
  /\ calib.pc \in {"loop", "done"} =>
       \A r \in Roles : \A g \in DOMAIN calib.grouped[r] : OnRunGrid(calib.grouped[r][g])
  /\ calib.pc = "done" =>
       /\ \A r \in Roles : calib.grids[r] # None => OnRunGrid(calib.grids[r])
       /\ \A r \in Roles : \A g \in DOMAIN calib.rawSamples[r] :
            OnRunGrid(calib.rawSamples[r][g])
  /\ calib.pc = "threw" => ("mismatch" \in DOMAIN calib => ~calib.mismatch)

\* A finished run that averaged two laps of one role, the second of them
\* rotated onto the first.
C4_Witness ==
  /\ calib.pc = "done"
  /\ calib.compared
  /\ calib.pushed # calib.grid
  /\ Len(calib.grouped[calib.type]) = 2
  /\ calib.grids[calib.type] # calib.grouped[calib.type][1]
  /\ calib.gridSize >= 4

\* The turn just finished: the loop has processed lap k with alignment on.
AfterAlignedTurn ==
  calib.pc = "loop" /\ calib.k >= 1 /\ calib.options.alignHeading

\* C6 as claimed: with heading alignment on, the first lap of each role
\* enters its role's group exactly as resampled and is not compared with a
\* reference heading.
C6_FirstLapOfRoleUnchanged ==
  (AfterAlignedTurn /\ Len(calib.grouped[calib.type]) = 1) =>
    ~calib.compared /\ calib.pushed = calib.grid

\* C6 as the code has it: only the first lap of the run enters exactly as
\* resampled, and its headings are the reference of the whole run; every
\* later lap, the first lap of another role included, is compared with that
\* reference, its offset is the median of the wrapped heading deltas, and it
\* enters rotated only when the offset exceeds 1e-4 rad.
C6_FirstLapOfRunIsReference ==
  AfterAlignedTurn =>
    LET first == calib.grouped[calib.classifiedLaps[1].type][1]
        reference == computeHeadings(first)
        own == computeHeadings(calib.grid)
    IN /\ calib.referenceHeading = Some(reference)
       /\ calib.k = 1 => ~calib.compared /\ calib.pushed = calib.grid /\ first = calib.grid
       /\ calib.k > 1 =>
            /\ calib.compared
            /\ calib.normalizedDelta =
                 medianAngle([i \in DOMAIN reference |->
                                wrapAngle(own[i] - reference[i])])
            /\ calib.pushed # calib.grid => Abs(calib.normalizedDelta) > 1
       /\ calib.grouped[calib.type][Len(calib.grouped[calib.type])] = calib.pushed

\* The first lap of a second role has been compared with the first lap of
\* the run and has entered its group rotated.
C6_Witness ==
  /\ AfterAlignedTurn
  /\ calib.k = 2
  /\ calib.classifiedLaps[1].type # calib.classifiedLaps[2].type
  /\ Len(calib.grouped[calib.type]) = 1
  /\ calib.compared
  /\ calib.pushed # calib.grid

\* The headingOffsets key of the lap just processed
LastKey == OffsetKey(calib.classifiedLaps[calib.k])

\* C7: when the headings of a lap equal the reference headings at every grid
\* sample, heading alignment leaves the lap alone: the grid pushed onto the
\* role's group is point for point the resampled grid, and the recorded
\* heading offset is 0.
C7_AlignedLapUnchanged ==
  (AfterAlignedTurn /\ calib.compared /\ calib.headings = calib.referenceHeading[1]) =>
    /\ calib.grouped[calib.type][Len(calib.grouped[calib.type])] = calib.grid
    /\ calib.headingOffsets[LastKey] = 0

\* A second lap of another size and place than the reference lap, with the
\* same headings, has been compared and pushed.
C7_Witness ==
  /\ AfterAlignedTurn
  /\ calib.compared
  /\ calib.headings = calib.referenceHeading[1]
  /\ calib.gridSize >= 4
  /\ \E i \in DOMAIN calib.headings : calib.headings[i] # 0
  /\ calib.grid # calib.grouped[calib.classifiedLaps[1].type][1]
\* C5 as claimed: for any point list, target budget and bias list, the
\* control-point set buildAnchorBudget returns has size >= 4 and <= target.
C5_BudgetSize ==
  budget.pc = "done" =>
    Len(budget.result) >= 4 /\ Len(budget.result) <= budget.targetCount

\* C5 as the code has it: with at least 4 points and a target of at least 4
\* the returned set has size >= 4 and <= target; a list of fewer than 4
\* points, or any list under a target below 4, is returned as it is.
C5_BudgetSizeFromFour ==
  budget.pc = "done" =>
    /\ (Len(budget.points) >= 4 /\ budget.targetCount >= 4) =>
         Len(budget.result) >= 4 /\ Len(budget.result) <= budget.targetCount
    /\ (Len(budget.points) < 4 \/ budget.targetCount < 4) => budget.result = budget.points

\* A list longer than its target of at least 4 whose bias indices alone
\* overfilled the index set: the surplus was trimmed.
C5_Witness ==
  /\ budget.pc = "done"
  /\ budget.targetCount >= 4
  /\ Len(budget.points) > budget.targetCount
  /\ Len(budget.filled) > budget.targetCount
  /\ Len(budget.result) = budget.targetCount
\* The sides the caller gave.
GivenSide(key) == SideOf(spline.given, key)
OneSideGiven == (GivenSide("left") = None) # (GivenSide("right") = None)

\* clone is source moved sideways: point for point, with the same progress,
\* by width across the local direction of travel (the circular central
\* difference), to the right when toRight and to the left otherwise.  Points
\* with no direction of travel are left out.
OffsetFrom(clone, source, width, toRight) ==
  /\ Len(clone) = Len(source)
  /\ \A i \in DOMAIN source :
       LET n == Len(source)
           prev == source[((i - 2 + n) % n) + 1]
           next == source[(i % n) + 1]
           tx == next.x - prev.x
           ty == next.y - prev.y
           dx == clone[i].x - source[i].x
           dy == clone[i].y - source[i].y
           along == tx * dx + ty * dy
           across == tx * dy - ty * dx
       IN /\ clone[i].progress = source[i].progress
          /\ (tx # 0 \/ ty # 0) =>
               /\ dx * dx + dy * dy >= (width - 1) * (width - 1)
               /\ dx * dx + dy * dy <= (width + 1) * (width + 1)
               /\ Abs(along) * 100 <= Abs(across)
               /\ IF toRight THEN across < 0 ELSE across > 0

\* C9: buildCenterSplineSamples with exactly one of left/right present and
\* allowSingleSide true builds the missing side from the present one (one
\* point per source point, moved along the local normal by the default track
\* width, away from the present side) and goes on; with a side missing and
\* allowSingleSide false it throws; with neither side it throws in either mode.
C9_SingleSide ==
  /\ (spline.pc = "threw") =>
       /\ GivenSide("left") = None \/ GivenSide("right") = None
       /\ ~AllowSingleSide(spline.options)
          \/ (GivenSide("left") = None /\ GivenSide("right") = None)
  /\ (spline.pc \notin {"sides", "threw"}) =>
       /\ GivenSide("left") # None \/ GivenSide("right") # None
       /\ OneSideGiven => AllowSingleSide(spline.options)
       /\ (GivenSide("left") # None /\ GivenSide("right") = None) =>
            /\ spline.grids[1].left = GivenSide("left")
            /\ OffsetFrom(spline.grids[1].right[1], GivenSide("left")[1],
                          TrackWidth(spline.options), TRUE)
       /\ (GivenSide("right") # None /\ GivenSide("left") = None) =>
            /\ spline.grids[1].right = GivenSide("right")
            /\ OffsetFrom(spline.grids[1].left[1], GivenSide("right")[1],
                          TrackWidth(spline.options), FALSE)

\* Only the left grid was given, single-side generation was allowed with the
\* default width, and the function went on past the clone to the point lists.
C9_Witness ==
  /\ spline.pc = "candidates"
  /\ GivenSide("left") # None /\ GivenSide("right") = None
  /\ spline.options.defaultTrackWidth = None
  /\ Len(spline.rightPoints) = 5
  /\ spline.rightPoints # spline.leftPoints
\* The report has an entry for the sample with (0-based) index k.
Reported(k) == \E j \in DOMAIN outl.outliers : outl.outliers[j].index = k

\* Both arrays hold one and the same positive value at every sample.
SameConstant ==
  \E c \in OutlValues :
    /\ c > 0
    /\ outl.minWidth <= c + c /\ c + c <= outl.maxWidth
    /\ \A i \in DOMAIN outl.halfWidthLeft :
         outl.halfWidthLeft[i] = c /\ outl.halfWidthRight[i] = c

\* C10: detectWidthOutliers reports at least one entry with index i for every
\* sample i whose left or right half-width is negative, and reports nothing
\* when both arrays are the same positive constant with total in
\* [minWidth, maxWidth].
C10_OutlierReport ==
  (outl.pc = "done") =>
    /\ \A i \in DOMAIN outl.halfWidthLeft :
         (outl.halfWidthLeft[i] < 0 \/ outl.halfWidthRight[i] < 0) => Reported(i - 1)
    /\ SameConstant => outl.outliers = <<>>

\* A returned report over three samples where only the second left and the
\* third right half-width are negative: both samples are reported.
C10_Witness ==
  /\ outl.pc = "done"
  /\ Len(outl.halfWidthLeft) = 3
  /\ outl.halfWidthLeft[2] < 0 /\ outl.halfWidthRight[2] > 0
  /\ outl.halfWidthRight[3] < 0 /\ outl.halfWidthLeft[3] > 0
  /\ outl.halfWidthLeft[1] > 0 /\ outl.halfWidthRight[1] > 0
  /\ Reported(1) /\ Reported(2) /\ ~Reported(0)
\* The step is a width stage that returned arrays.
StageReturnedArrays == stage'.count > stage.count /\ stage'.last # "detectWidthOutliers"

\* C11: every width-stage operation leaves each array that existed before it
\* element for element as it was, and the arrays it returns are two distinct
\* arrays that did not exist before it.
C11_StagesKeepInputs ==
  [][/\ \A r \in DOMAIN stage.heap : stage'.heap[r] = stage.heap[r]
     /\ StageReturnedArrays =>
          /\ stage'.halfWidthLeft \notin DOMAIN stage.heap
          /\ stage'.halfWidthRight \notin DOMAIN stage.heap
          /\ stage'.halfWidthLeft # stage'.halfWidthRight]_vars

\* clampWidthDeltas has just run as a later stage and returned left values that
\* differ from the ones it was given, which are still in place.
C11_Witness ==
  /\ stage.pc = "widths"
  /\ stage.last = "clampWidthDeltas"
  /\ stage.count >= 2
  /\ stage.heap[stage.given[1]] # stage.heap[stage.halfWidthLeft]
  /\ stage.given[1] # stage.halfWidthLeft
\* The array handed to the smoother holds one value at every sample.
SmoothingConstant ==
  \A i \in DOMAIN smooth.values : smooth.values[i] = smooth.values[1]

\* C12: smoothing an array whose elements all equal c returns an array of the
\* same length whose elements all equal c, for smoothArray (window >= 1,
\* circular or not) and savitzkyGolaySmooth (window >= 3 with a kernel).
C12_ConstantStaysConstant ==
  (smooth.pc = "done" /\ SmoothingConstant) =>
    /\ Len(smooth.result) = Len(smooth.values)
    /\ \A i \in DOMAIN smooth.values : smooth.result[i] = Some(smooth.values[i])
\* The distances of the samples resampleOnGrid kept.
KeptDistances == calculateCumulativeDistance(resample.validSamples)
ZeroSpan == KeptDistances[1] = KeptDistances[Len(KeptDistances)]

\* C13: normalizeToProgress of a trace whose first and last distance are equal
\* returns one progress value per sample, every one of them 0 (a number, not
\* the NaN a division by the zero span would give).
C13_ZeroSpanProgress ==
  (resample.pc \in {"loop", "done"} /\ ZeroSpan) =>
    /\ Len(resample.progress) = Len(resample.validSamples)
    /\ \A i \in DOMAIN resample.progress : resample.progress[i] = Frac(0, 1)

\* Three kept samples at the same distance have been normalised; and so has a
\* trace that returns to its first distance after leaving it.
C13_Witness ==
  /\ resample.pc = "loop"
  /\ Len(resample.validSamples) = 3
  /\ ZeroSpan
  /\ KeptDistances[2] # KeptDistances[1]
  /\ resample.progress = <<Frac(0, 1), Frac(0, 1), Frac(0, 1)>>
\* The active side changes at sample i (0-based, i >= 1).
SwitchAt(i) == edges.insideSides[i + 1] # edges.insideSides[i]
Switches == {i \in 1..(Len(edges.insideSides) - 1) : SwitchAt(i)}

\* C19: the active inside side changes at sample i only if the pick was the
\* new side at each of the minSamples consecutive samples ending at i (all of
\* them after sample 0, which sets the side outright); so two switches are at
\* least minSamples apart, the first is at index >= minSamples, every switch
\* is counted in flipCount, and a pick equal to the active side leaves no
\* pending switch.
C19_SwitchNeedsRun ==
  (edges.pc \in {"loop", "done"}) =>
    /\ \A i \in Switches :
         /\ i >= edges.minSamples
         /\ \A j \in (i - edges.minSamples + 1)..i :
              edges.candidates[j + 1] = edges.insideSides[i + 1]
    /\ \A i \in Switches, k \in Switches : i < k => k - i >= edges.minSamples
    /\ edges.flipCount = Cardinality(Switches)
    /\ edges.pendingCount < edges.minSamples
    /\ (Len(edges.candidates) >= 2
        /\ edges.candidates[Len(edges.candidates)] = edges.current) =>
         (edges.pendingCount = 0 /\ edges.pending = None)

\* With minSamples = 2: a pick of the other side at sample 1, a flicker back
\* at sample 2, then a run of two picks that commits the only switch at 4.
C19_Witness ==
  /\ edges.pc = "done"
  /\ edges.minSamples = 2
  /\ edges.flipCount = 1
  /\ Len(edges.insideSides) = 5
  /\ Switches = {4}
  /\ edges.candidates[2] # edges.insideSides[2]
  /\ edges.candidates[3] = edges.insideSides[3]
\* lastSign once the first i samples are processed.
RECURSIVE LastSignAfter(_, _)
LastSignAfter(centerAngles, i) ==
  IF i = 0 THEN 1
  ELSE IF Abs(centerAngles[i]) > AngleEps THEN Sign(centerAngles[i])
  ELSE LastSignAfter(centerAngles, i - 1)

\* Neither side wins at the i-th sample: both match the turn direction with
\* equal magnitude, or neither matches and the absolute angles are equal.
NeitherWins(i) ==
  LET sign == LastSignAfter(edges.centerAngles, i)
      l == edges.leftAngles[1][i]
      r == edges.rightAngles[1][i]
      leftMatch == Sign(l) = sign /\ Abs(l) > AngleEps
      rightMatch == Sign(r) = sign /\ Abs(r) > AngleEps
  IN (leftMatch <=> rightMatch) /\ Abs(l) = Abs(r)

\* The side that is active when the i-th sample is picked.
ActiveBefore(i) == IF i = 1 THEN "left" ELSE edges.insideSides[i - 1]

\* C20: when neither side wins the per-sample pick, the pick is the side that
\* is active at that moment, whichever side that is.
C20_TieKeepsActive ==
  (edges.pc \in {"loop", "done"}) =>
    \A i \in DOMAIN edges.candidates : NeitherWins(i) => edges.candidates[i] = ActiveBefore(i)
\* Every sample of a curve over n anchors falls in one of its n segments, at
\* a local parameter in [0, 1).
SegmentsInRange(n) ==
  \A i \in 0..(spline.sampleCount - 1) :
    LET position == BezierPosition(i, spline.sampleCount, n)
        localT == FracMinus(position, Frac(FloorOf(position), 1))
    IN /\ FloorOf(position) \in 0..(n - 1)
       /\ ~FracLess(localT, Frac(0, 1))
       /\ FracLess(localT, Frac(1, 1))

\* C14: buildCenterSplineSamples returns leftSamples, rightSamples and
\* centerline of length exactly sampleCount whatever the three anchor counts
\* are; every sample's segment index is in 0..numAnchors-1 and its local
\* parameter in [0, 1); sample 0 of each curve is the curve's first anchor.
C14_SampleCounts ==
  (spline.pc = "done") =>
    /\ Len(spline.leftSamples) = spline.sampleCount
    /\ Len(spline.rightSamples) = spline.sampleCount
    /\ Len(spline.centerline) = spline.sampleCount
    /\ SegmentsInRange(Len(spline.leftControl))
    /\ SegmentsInRange(Len(spline.rightControl))
    /\ SegmentsInRange(Len(spline.centerControls))
    /\ (spline.sampleCount >= 1) =>
         /\ Pairs(spline.leftSamples)[1] = spline.leftControl[1]
         /\ Pairs(spline.rightSamples)[1] = spline.rightControl[1]
         /\ spline.centerline[1] = spline.centerControls[1]

\* A returned result of several samples over three curves with different
\* anchor counts.
C14_Witness ==
  /\ spline.pc = "done"
  /\ spline.sampleCount = MaxSampleCount
  /\ spline.metadata.leftControlCount # spline.metadata.rightControlCount
  /\ spline.metadata.centerControlCount # spline.metadata.rightControlCount
  /\ Len(spline.centerline) = MaxSampleCount
\* The place in the log where call c was made.
CalledAt(c) == CHOOSE k \in DOMAIN loader.log :
                 loader.log[k].kind = "call" /\ loader.log[k].call = c

\* Entry d of the log is the return of a call made after the return at entry
\* a, for the same track, with no clearTrackMapCache between that return and
\* the later call.
LaterLoad(a, d) ==
  /\ loader.log[a].kind = "return" /\ loader.log[d].kind = "return"
  /\ loader.log[a].trackId = loader.log[d].trackId
  /\ CalledAt(loader.log[d].call) > a
  /\ \A k \in a..CalledAt(loader.log[d].call) : loader.log[k].kind # "clear"

\* C15: once a loadTrackMap(trackId) call has completed, every later
\* loadTrackMap(trackId) returns that same outcome without calling fetch,
\* until clearTrackMapCache is called.
C15_LaterLoadsReturnCached ==
  (loader.pc = "page") =>
    \A a \in DOMAIN loader.log, d \in DOMAIN loader.log :
      LaterLoad(a, d) =>
        /\ loader.log[d].outcome = loader.log[a].outcome
        /\ ~loader.log[d].fetched
\* C16: for samples sorted by increasing distance and a non-null target,
\* findSampleAtDistance returns a sample whose distance is nearest to the
\* target: no other sample has a strictly smaller |distance - target|.
C16_ReturnsNearest ==
  (find.pc = "returned" /\ find.target # None /\ find.samples # <<>>) =>
    /\ find.result # None
    /\ \A k \in DOMAIN find.samples :
         Abs(find.samples[k].distance - find.target[1])
           >= Abs(find.samples[find.result[1] + 1].distance - find.target[1])
\* The place of a lap id among the distinct ids passed since the last reset.
RankOf(lapId) == CHOOSE k \in DOMAIN viewer.lapColors : viewer.lapColors[k].key = lapId

\* C17: with no resetState in between, a lap id always gets the colour it
\* got on its first call, the k-th distinct id gets palette entry
\* (k-1) mod 8, and two different ids among the first 8 have different
\* colours.
C17_LapColorDeterministic ==
  /\ viewer.lastCall # None =>
       /\ viewer.lastCall[1].color = viewer.firstColor[viewer.lastCall[1].lapId][1]
       /\ viewer.lastCall[1].color
            = PALETTE[((RankOf(viewer.lastCall[1].lapId) - 1) % 8) + 1]
  /\ \A a \in LapIds, b \in LapIds :
       (/\ a # b
        /\ viewer.firstColor[a] # None /\ viewer.firstColor[b] # None
        /\ RankOf(a) <= 8 /\ RankOf(b) <= 8)
         => viewer.firstColor[a] # viewer.firstColor[b]

\* A ninth distinct id has taken the first palette entry again, and the first
\* id, asked once more, has just got its first colour.
C17_Witness ==
  /\ Len(viewer.lapColors) >= 9
  /\ viewer.lapColors[9].value = PALETTE[1]
  /\ viewer.lastCall # None
  /\ RankOf(viewer.lastCall[1].lapId) = 1
  /\ viewer.lastCall[1].color = PALETTE[1]
\* What decodeSamples should give for a sample: each quantized integer of
\* the original over its scale.
QuantizedOverScale(sample) ==
  LET q == quantizeSample(sample)
  IN [distance |-> Over(q.distance, DISTANCE_SCALE), time |-> Over(q.time, TIME_SCALE),
      throttle |-> Over(q.throttle * 100, 255), brake |-> Over(q.brake * 100, 255),
      steer |-> Over(q.steer * 1000 - 127500, 1275),
      speed |-> Over(ToInt32(q.speed), SPEED_SCALE), gear |-> q.gear,
      rpm |-> Over(ToInt32(q.rpm), 1),
      x |-> Over(q.x, COORD_SCALE), y |-> Over(q.y, COORD_SCALE),
      z |-> Over(q.z, COORD_SCALE)]

\* C18: for a sample list whose quantized fields and successive deltas fit
\* in signed 32-bit integers, decodeSamples(encodeSamples(samples),
\* samples.length) does not throw, consumes the whole buffer and returns as
\* many samples, each field the quantized integer of the original over its
\* scale.
C18_ShareRoundTrip ==
  /\ share.pc # "threw"
  /\ share.pc \in {"decode", "returned"} =>
       \A k \in DOMAIN share.decoded :
         share.decoded[k] = QuantizedOverScale(share.samples[k])
  /\ share.pc = "returned" =>
       /\ Len(share.decoded) = Len(share.samples)
       /\ share.offset = Len(share.bytes)

\* Three samples have come back, with deltas at both ends of the 32-bit
\* range (five-byte varints) and fields that were clamped.
C18_Witness ==
  /\ share.pc = "returned"
  /\ Len(share.decoded) = 3
  /\ share.decoded[1].time.n = Int32Min
  /\ share.decoded[2].time.n = -1
  /\ share.decoded[2].throttle.n = 25500
  /\ Len(share.bytes) > 45
\* C21: the flip count of determineInsideEdges is the number of indices
\* i >= 1 at which insideSides[i] differs from insideSides[i-1]; the choice
\* of the side at the first sample is never counted, whichever side it is.
C21_FlipCountIsSideChanges ==
  (edges.pc \in {"loop", "done"}) =>
    /\ edges.flipCount
         = Cardinality({i \in 1..(Len(edges.insideSides) - 1) :
                          edges.insideSides[i + 1] # edges.insideSides[i]})
    /\ Len(edges.insideSides) <= 1 => edges.flipCount = 0

\* The first sample chose 'right' (not the initial 'left'), uncounted, and
\* two switches were committed after it.
C21_Witness ==
  /\ edges.pc = "done"
  /\ Len(edges.insideSides) = 5
  /\ edges.insideSides[1] = "right"
  /\ edges.flipCount = 2
\* The distance between two sample indices around the closed curve.
CircularDistance(a, b, n) == Min(Abs(a - b), n - Abs(a - b))

\* C22: in the list returned by detectApexIndices no two indices are within
\* the merge distance, max(1, round(5 / spacing)) samples measured around
\* the closed curve, of each other.
C22_ApexesApart ==
  (apex.pc = "returned") =>
    \A a \in DOMAIN apex.merged, b \in DOMAIN apex.merged :
      a # b => CircularDistance(apex.merged[a], apex.merged[b], Len(apex.curvature))
                 > apex.mergeSamples
\* The bias indices taken modulo n, the indices chosen, and the case of C23:
\* more points than the target budget, which is at least 4.
BiasModN == {budget.biasIndices[k] % Len(budget.points) : k \in DOMAIN budget.biasIndices}
ChosenIndices == {budget.indexSet[k] : k \in DOMAIN budget.indexSet}
OverBudget ==
  /\ budget.pc = "done"
  /\ budget.targetCount >= 4
  /\ Len(budget.points) > budget.targetCount

\* The result is exactly target points: the points at the chosen indices in
\* increasing index order, no index twice.
ExactSubsequence ==
  /\ Len(budget.result) = budget.targetCount
  /\ Cardinality(ChosenIndices) = Len(budget.result)
  /\ ChosenIndices \subseteq 0..(Len(budget.points) - 1)
  /\ \A k \in DOMAIN budget.result :
       \E idx \in ChosenIndices :
         /\ Cardinality({o \in ChosenIndices : o < idx}) = k - 1
         /\ budget.result[k] = budget.points[idx + 1]

\* C23 as claimed: when the point count exceeds the target budget
\* (target >= 4), buildAnchorBudget returns exactly target points, a
\* subsequence of the input in index order without duplicates, containing
\* the point at every apex bias index (modulo n).
C23_BudgetKeepsEveryApex ==
  OverBudget => (ExactSubsequence /\ BiasModN \subseteq ChosenIndices)

\* C23 as the code has it: exactly target points, a subsequence in index
\* order without duplicates; every bias index is kept when at most target
\* distinct bias indices are given, and otherwise only bias indices are kept,
\* no dropped one having a higher curvature score than a kept one.
C23_BudgetKeepsApexesWithinTarget ==
  OverBudget =>
    /\ ExactSubsequence
    /\ Cardinality(BiasModN) <= budget.targetCount => BiasModN \subseteq ChosenIndices
    /\ Cardinality(BiasModN) > budget.targetCount =>
         /\ ChosenIndices \subseteq BiasModN
         /\ \A d \in BiasModN \ ChosenIndices, c \in ChosenIndices :
              curvatureScore(budget.points, d) <= curvatureScore(budget.points, c)

\* Six points under a target of 4 with the bias indices -1 and 2: both
\* (5 and 2) are among the four indices chosen.
C23_Witness ==
  /\ OverBudget
  /\ Len(budget.points) = 6
  /\ budget.targetCount = 4
  /\ budget.biasIndices = <<-1, 2>>
  /\ {2, 5} \subseteq ChosenIndices
  /\ Len(budget.result) = 4
\* The raw half-width of the inside side at sample k, the outputs there, and
\* minWidth.
RawInside(k) == IF envl.insideLeft[k] THEN envl.halfWidthLeft[k] ELSE envl.halfWidthRight[k]
OutInside(k) == IF envl.insideLeft[k] THEN envl.resultLeft[k] ELSE envl.resultRight[k]
OutOutside(k) == IF envl.insideLeft[k] THEN envl.resultRight[k] ELSE envl.resultLeft[k]
EnvelopeMinWidth == IF envl.targetWidth > 0 THEN envl.targetWidth ELSE 6 * MilliPerMeter

\* max(0.75, 0.4 * insideHalf, desiredTotal - insideHalf), in millimetres
OutsideFor(insideHalf, desiredTotal) ==
  Max(750, Max((4 * insideHalf) \div 10, desiredTotal - insideHalf))

\* C24 as claimed: at every sample the inside output is the raw half-width
\* of the inside side and the outside output is max(0.75, 0.4*insideHalf,
\* desiredTotal - insideHalf) with desiredTotal = max(minWidth,
\* 0.95*targetWidth), minWidth = targetWidth if targetWidth > 0, else 6.
C24_EnvelopeFormula ==
  \A k \in DOMAIN envl.insideLeft :
    /\ OutInside(k) = RawInside(k)
    /\ OutOutside(k) = OutsideFor(RawInside(k),
                                  Max(EnvelopeMinWidth, (95 * envl.targetWidth) \div 100))

\* C24 as the code has it: insideHalf is the raw half-width of the inside
\* side raised to 0 when negative; the inside output is insideHalf and the
\* outside output is max(0.75, 0.4*insideHalf, desiredTotal - insideHalf),
\* where desiredTotal = max(minWidth, 0.95*targetWidth) when targetWidth is
\* not 0 and max(6, 2*insideHalf) when it is 0.
C24_EnvelopeFormulaClamped ==
  \A k \in DOMAIN envl.insideLeft :
    LET insideHalf == Max(0, RawInside(k))
        desiredTotal == IF envl.targetWidth # 0
                        THEN Max(EnvelopeMinWidth, (95 * envl.targetWidth) \div 100)
                        ELSE Max(6 * MilliPerMeter, 2 * insideHalf)
    IN /\ OutInside(k) = insideHalf
       /\ OutOutside(k) = OutsideFor(insideHalf, desiredTotal)

\* Three samples under a target of 10 m (desiredTotal 10 m): an inside of
\* 4 m gets 6 m outside, an inside of 8 m gets 3.2 m (0.4 * 8), and a
\* negative raw inside becomes 0 with 10 m outside.
C24_Witness ==
  /\ envl.pc = "returned"
  /\ envl.targetWidth = 10000
  /\ Len(envl.insideLeft) = 3
  /\ \E k \in 1..3 : RawInside(k) = 4000 /\ OutOutside(k) = 6000
  /\ \E k \in 1..3 : RawInside(k) = 8000 /\ OutOutside(k) = 3200
  /\ \E k \in 1..3 : RawInside(k) = -1000 /\ OutInside(k) = 0 /\ OutOutside(k) = 10000

\* The angle the loop read at sample k, and the class before it.
EnvelopeAngle(k) == IF envl.signedAngles # None THEN envl.signedAngles[1][k] ELSE 0
PreviousInsideLeft(k) == IF k = 1 THEN TRUE ELSE envl.insideLeft[k - 1]

\* C25 as claimed: a sample is inside-left when its signed turning angle is
\* positive, inside-right when it is negative, and only for an angle of
\* exactly 0 takes the class of the previous sample.
C25_ClassBySign ==
  \A k \in DOMAIN envl.insideLeft :
    /\ EnvelopeAngle(k) > 0 => envl.insideLeft[k]
    /\ EnvelopeAngle(k) < 0 => ~envl.insideLeft[k]
    /\ EnvelopeAngle(k) = 0 => envl.insideLeft[k] = PreviousInsideLeft(k)

\* C25 as the code has it: inside-left when the angle is at least 1e-3 rad,
\* inside-right when it is at most -1e-3 rad, and for every angle of
\* magnitude below 1e-3 rad (not only 0) the class of the previous sample,
\* which is inside-left before the first sample; a missing angle array counts
\* as angles of 0.
C25_ClassBySignOutsideDeadBand ==
  \A k \in DOMAIN envl.insideLeft :
    /\ EnvelopeAngle(k) >= 10 => envl.insideLeft[k]
    /\ EnvelopeAngle(k) <= -10 => ~envl.insideLeft[k]
    /\ Abs(EnvelopeAngle(k)) < 10 => envl.insideLeft[k] = PreviousInsideLeft(k)
    /\ envl.insideLeftCount + envl.insideRightCount = Len(envl.insideLeft)

\* A left turn, then an angle of -0.0005 rad that keeps inside-left, then an
\* angle of exactly -1e-3 rad, classified inside-right by its sign.
C25_Witness ==
  /\ envl.pc = "returned"
  /\ envl.signedAngles = Some(<<200, -5, -AngleTie>>)
  /\ envl.insideLeft = <<TRUE, TRUE, FALSE>>
\* C26: whatever calls filled the cache before, the kernel a
\* savitzkyGolaySmooth call with (window, order, spacing) uses is the kernel
\* computed from scratch for exactly those parameters (and the call throws
\* exactly when that computation throws).
C26_CacheIsMemoization ==
  (kern.pc = "page" /\ kern.last # None) =>
    kern.last[1].kernel
      = ComputeKernel(kern.last[1].windowSize, kern.last[1].order, kern.last[1].spacing)
\* Strictly increasing indices, none beyond the sample the loop has reached.
IncreasingUpTo(indices, top) ==
  /\ \A k \in DOMAIN indices : indices[k] <= top
  /\ \A k \in 1..(Len(indices) - 1) : indices[k] < indices[k + 1]

\* Sample i is the last listed index.
ListedLast(indices, i) == indices # <<>> /\ indices[Len(indices)] = i

\* C27: enforceWidthConstraints never raises a half-width; on each side the
\* clamp count is the length of the index list, the list is strictly
\* increasing, and sample i is listed exactly when its value was lowered.
C27_NeverRaisesAndListsLowered ==
  LET st == guard.stats
  IN /\ guard.pc = "sample" =>
          /\ guard.leftResult <= guard.halfWidthLeft
          /\ guard.rightResult <= guard.halfWidthRight
          /\ ListedLast(st.leftIndices, guard.i) <=> guard.leftResult < guard.halfWidthLeft
          /\ ListedLast(st.rightIndices, guard.i) <=> guard.rightResult < guard.halfWidthRight
          /\ IncreasingUpTo(st.leftIndices, guard.i)
          /\ IncreasingUpTo(st.rightIndices, guard.i)
     /\ guard.pc \in {"loop", "done"} =>
          /\ IncreasingUpTo(st.leftIndices, guard.i - 1)
          /\ IncreasingUpTo(st.rightIndices, guard.i - 1)
     /\ guard.pc # "idle" =>
          /\ st.leftClamped = Len(st.leftIndices)
          /\ st.rightClamped = Len(st.rightIndices)

\* Both samples of a two-sample run were lowered on the left, and the right
\* side, equal to its limit at the last sample, was left alone.
C27_Witness ==
  /\ guard.pc = "sample"
  /\ guard.i = 1
  /\ guard.stats.leftIndices = <<0, 1>>
  /\ guard.leftResult < guard.halfWidthLeft
  /\ guard.rightLaps > 0
  /\ guard.rightResult = guard.halfWidthRight
  /\ guard.rightResult = ScaledLimit(guard.rightPoints, guard.center, guard.normal, -1, guard.safeScale)
  /\ guard.stats.rightIndices = <<>>
\* Every value of out lies between the smallest and the largest value of in.
InsideRangeOf(out, in) ==
  \A i \in DOMAIN out :
    /\ \E j \in DOMAIN in : in[j] <= out[i]
    /\ \E j \in DOMAIN in : out[i] <= in[j]

\* |values[i] - values[prev(i)]| <= perSampleLimit on every circular pair.
WithinSlopeLimit(values, perSampleLimit) ==
  \A i \in DOMAIN values :
    Abs(values[i] - values[PrevIndex(i, Len(values))]) <= perSampleLimit

\* What C28 says of one applySlopeClamp call that has returned.
SlopeClampKeepsRange(in, out, perSampleLimit) ==
  /\ Len(out.values) = Len(in)
  /\ InsideRangeOf(out.values, in)
  /\ WithinSlopeLimit(in, perSampleLimit) =>
       /\ out.values = in
       /\ out.clampedCount = 0
       /\ \A i \in DOMAIN out.flags : ~out.flags[i]

\* C28: after applySlopeClamp every output value lies between the minimum
\* and the maximum of the input array, and an input that satisfies the limit
\* on every circular pair is returned unchanged with no sample flagged.
C28_SlopeClampKeepsRange ==
  /\ clamp.pc \in {"right", "done"} =>
       SlopeClampKeepsRange(clamp.halfWidthLeft, clamp.leftClamp, clamp.perSampleLimit)
  /\ clamp.pc = "done" =>
       SlopeClampKeepsRange(clamp.halfWidthRight, clamp.rightClamp, clamp.perSampleLimit)

\* The left array, not constant, met the limit and came back unchanged; the
\* right array was clamped.
C28_Witness ==
  /\ clamp.pc = "done"
  /\ WithinSlopeLimit(clamp.halfWidthLeft, clamp.perSampleLimit)
  /\ \E i \in DOMAIN clamp.halfWidthLeft : clamp.halfWidthLeft[i] # clamp.halfWidthLeft[1]
  /\ clamp.leftClamp.values = clamp.halfWidthLeft
  /\ clamp.rightClamp.clampedCount > 0
  /\ clamp.rightClamp.values # clamp.halfWidthRight
\* C29: in circular mode every index that smoothArray and savitzkyGolaySmooth
\* have read for a sample is an index of the array, 0..n-1, for every array
\* of at least one value and every accepted window, windows longer than the
\* array included.
C29_CircularReadsInRange ==
  (smooth.pc = "loop" /\ smooth.circular /\ smooth.i >= 1) =>
    LET n == Len(smooth.values)
        reads == WindowReads(smooth.i - 1, n, smooth.window, TRUE)
    IN \A r \in DOMAIN reads : reads[r].index >= 0 /\ reads[r].index <= n - 1
\* C30: after any interleaving of handleFiles, activateLap,
\* handleVisibilityChange and clearLaps, an active lap id implies a
\* non-empty set of visible laps; and when a lap was hidden that was the
\* only visible one, the active lap is visible afterwards.
C30_ActiveLapStaysVisible ==
  /\ page.activeLapId # None => page.lapVisibility # {}
  /\ (/\ page.last # None
      /\ page.last[1].op = "hide"
      /\ page.last[1].before \subseteq {page.last[1].lapId}
      /\ page.activeLapId # None)
       => page.activeLapId[1] \in page.lapVisibility

\* The active lap was the only visible one and has just been hidden, while
\* another handleFiles call is still waiting for a file: it is visible again.
C30_Witness ==
  /\ page.last # None
  /\ page.last[1].op = "hide"
  /\ page.last[1].before = {page.last[1].lapId}
  /\ page.activeLapId = Some(page.last[1].lapId)
  /\ page.lapVisibility = {page.last[1].lapId}
  /\ Len(page.laps) >= 2
  /\ page.loads # <<>>
====
